---- MODULE Spec2Model ----
(***************************************************************************)
(* Model of the query-formatting and parameter-translation engine of the   *)
(* NetSuite MCP gateway: operator translation, the textual (SuiteQL) and   *)
(* structured (search restlet) compilers, the paged fetch loop, the result *)
(* normalizers and the account hierarchy resolver.                         *)
(*                                                                         *)
(* Conventions.  A JavaScript object whose key order matters (a column     *)
(* map, a raw row) is a sequence of entries; an optional value is a        *)
(* sequence of length 0 or 1; a SuiteQL statement or clause is a string,   *)
(* character for character; a search filter expression is a sequence.      *)
(* A value that may throw is a record with an "ok" field.                  *)
(***************************************************************************)
EXTENDS Integers, Sequences, FiniteSets, TLC

VARIABLES
  task,       \* which operation the modelled invocation runs
  opReq,      \* getOperator: the (reqtype, datatype, operator) of the call
  opRes,      \* getOperator: <<>> before the call, <<outcome>> after it
  sqlReq,     \* formatSQL: the arguments of the call
  sqlRes,     \* formatSQL: <<>> before the call, <<statement>> after it
  trReq,      \* transform / transformArray: the rows and the column map of the call
  trRes,      \* transform / transformArray: <<>> before the call, <<records>> after it
  srReq,      \* searchRestlet: the arguments of the call and the process configuration
  srPc,       \* searchRestlet: "start", "awaiting" (the HTTP response), "done", "error"
  srObj,      \* searchRestlet: <<>> or <<the descriptor formatSearchObj returned>>
  srSent,     \* searchRestlet: the bodies of the HTTP requests issued so far
  srRes,      \* searchRestlet: <<>> or <<the value returned or the error thrown>>
  srResp,     \* searchRestlet: <<>> or <<what the HTTP request came back with>>
  gvRes,      \* get-vendors: <<>> or <<the payload the handler returned>>
  input,      \* get-accounts: the tool input (the generic envelope)
  pgPc,       \* get-accounts: "start", "awaiting" (executeSuiteQL), "delay", "done"
  dataOffset, \* get-accounts: the loop's dataOffset
  totalData,  \* get-accounts: the loop's totalData
  pgCalls,    \* get-accounts: the executeSuiteQL calls issued, [query, offset] each
  pgData,     \* get-accounts: what each call returned (or that it threw), in call order
  pgDelays,   \* get-accounts: for each 100 ms delay taken, the number of calls before it
  pgRes,      \* get-accounts: <<>> or <<the payload the handler returned>>
  hiReq,      \* getChildrenByNumber: [accountData, Numb]
  hiPc,       \* getChildrenByNumber: "start", "running", "done"
  hiStack,    \* getChildrenByNumber: the live findRecursively frames, innermost last
  result,     \* getChildrenByNumber: the ids pushed so far
  upReq,      \* updateParentNumberFromId: the records passed in
  upRes,      \* updateParentNumberFromId: <<>> or <<the records returned>>
  vpReq,      \* validateParamFilters: its arguments
  vpRes,      \* validateParamFilters: <<>> or <<the return or the error thrown>>
  exReq,      \* executeSuiteQL: the process environment and what the HTTP request meets
  exRes,      \* executeSuiteQL: <<>> or <<the value returned or the error thrown>>
  gbReq,      \* get-bills: the tool input, as the arguments of searchRestlet
  gbPc,       \* get-bills: "idle", "start", "awaiting", "done"
  gbSent,     \* get-bills: the bodies posted to the backend
  gbRes,      \* get-bills: <<>> or <<the payload the handler returned>>
  transports,     \* HTTP server: the session ids that are keys of this.transports
  sessionTimers,  \* HTTP server: this.sessionTimers, session id -> timer handle
  pendingTimers,  \* HTTP server: the timeouts scheduled and neither fired nor cleared
  openTransports, \* HTTP server: the sessions whose transport object is not closed
  sessionCount,   \* HTTP server: the number of session ids randomUUID has produced
  timerCount,     \* HTTP server: the number of setTimeout calls made
  sweepLog,       \* HTTP server: for each sweep run so far, the session ids it cleaned up
  httpStatus      \* HTTP server: the status of the latest POST /mcp reply, 0 before any

vars == <<task, opReq, opRes, sqlReq, sqlRes, trReq, trRes,
          srReq, srPc, srObj, srSent, srResp, srRes, gvRes,
          input, pgPc, dataOffset, totalData, pgCalls, pgData, pgDelays, pgRes,
          hiReq, hiPc, hiStack, result, upReq, upRes, vpReq, vpRes, exReq, exRes,
          gbReq, gbPc, gbSent, gbRes,
          transports, sessionTimers, pendingTimers, openTransports, sessionCount,
          timerCount, sweepLog, httpStatus>>

opVars == <<opReq, opRes>>
sqlVars == <<sqlReq, sqlRes>>
trVars == <<trReq, trRes>>
srVars == <<srReq, srPc, srObj, srSent, srResp, srRes, gvRes>>
pgVars == <<input, pgPc, dataOffset, totalData, pgCalls, pgData, pgDelays, pgRes>>
hiVars == <<hiReq, hiPc, hiStack, result>>
upVars == <<upReq, upRes>>
vpVars == <<vpReq, vpRes>>
exVars == <<exReq, exRes>>
gbVars == <<gbReq, gbPc, gbSent, gbRes>>
hsVars == <<transports, sessionTimers, pendingTimers, openTransports, sessionCount,
            timerCount, sweepLog, httpStatus>>

(***************************************************************************)
(* Generic helpers on sequences.                                           *)
(***************************************************************************)
Range(s) == {s[i] : i \in 1..Len(s)}

\* Array.prototype.join: the texts of ss with sep between them.
RECURSIVE JoinWith(_, _)
JoinWith(ss, sep) ==
  IF ss = <<>> THEN ""
  ELSE IF Len(ss) = 1 THEN Head(ss)
  ELSE Head(ss) \o sep \o JoinWith(Tail(ss), sep)

SeqsUpTo(S, n) == UNION {[1..k -> S] : k \in 0..n}

\* Texts are strings, character for character.
\* String.prototype.indexOf, counted from 1: the first position of t in s, 0
\* when t does not occur.
IndexOf(s, t) ==
  LET at == {i \in 1..(Len(s) - Len(t) + 1) : SubSeq(s, i, i + Len(t) - 1) = t} IN
  IF at = {} THEN 0 ELSE CHOOSE i \in at : \A j \in at : i <= j

\* String.prototype.includes
Includes(s, t) == IndexOf(s, t) # 0

\* String.prototype.replace with a string pattern: the first occurrence only,
\* and the text unchanged when the pattern does not occur.
Replace(s, t, rep) ==
  LET i == IndexOf(s, t) IN
  IF i = 0 THEN s
  ELSE SubSeq(s, 1, i - 1) \o rep \o SubSeq(s, i + Len(t), Len(s))

(***************************************************************************)
(* Operator translator.                                                    *)
(***************************************************************************)
ReqTypes == {"sql", "script"}
DataTypes == {"string", "number", "date", "boolean", "id", "enum"}
Operators == {"<", "<=", ">", ">=", "=", "!=", "Like", "Not_Like"}

Token(t) == [ok |-> TRUE, token |-> t]
Throw(name) == [ok |-> FALSE, name |-> name]

\* helper.ts 399-427: NetSuiteHelper.error(msg, type) throws a CFError of the
\* given kind, of kind UserErr when no kind is given; type is <<>> or <<kind>>.
error(type) == Throw(IF type = <<>> THEN "UserErr" ELSE type[1])

\* Variant: the data type test of the textual branch is missing.
getOperatorSql_AnyType(datatype, operator) ==
  IF operator = "=" \/ operator = "Like" THEN Token("LIKE")
  ELSE IF operator = "!=" \/ operator = "Not_Like" THEN Token("NOT LIKE")
  ELSE Token(operator)

\* helper.ts 101-106: the textual backend.
getOperatorSql(datatype, operator) ==
  IF (operator = "=" /\ datatype = "string") \/ operator = "Like" THEN Token("LIKE")
  ELSE IF (operator = "!=" /\ datatype = "string") \/ operator = "Not_Like"
    THEN Token("NOT LIKE")
  ELSE Token(operator)

\* Variant: the date cases for < and > are exchanged.
getOperatorScript_DateSwapped(datatype, operator) ==
  IF datatype = "boolean" THEN Token("is")
  ELSE IF datatype = "number" THEN
    CASE operator = "=" -> Token("EQUALTO")
      [] operator = "!=" -> Token("NOTEQUALTO")
      [] operator = "<" -> Token("LESSTHAN")
      [] operator = "<=" -> Token("LESSTHANOREQUALTO")
      [] operator = ">" -> Token("GREATERTHAN")
      [] operator = ">=" -> Token("GREATERTHANOREQUALTO")
      [] OTHER -> Throw("AIErr")
  ELSE IF datatype = "date" THEN
    CASE operator = "=" -> Token("ON")
      [] operator = "!=" -> Token("NOTON")
      [] operator = "<" -> Token("AFTER")
      [] operator = "<=" -> Token("ONORBEFORE")
      [] operator = ">" -> Token("BEFORE")
      [] operator = ">=" -> Token("ONORAFTER")
      [] OTHER -> Throw("AIErr")
  ELSE IF datatype = "string" THEN
    CASE operator \in {"=", "Like"} -> Token("CONTAINS")
      [] operator \in {"!=", "Not_Like"} -> Token("DOESNOTCONTAIN")
      [] OTHER -> Throw("AIErr")
  ELSE IF datatype = "id" THEN
    CASE operator \in {"=", "Like"} -> Token("ANYOF")
      [] operator \in {"!=", "Not_Like"} -> Token("NONEOF")
      [] OTHER -> Throw("AIErr")
  ELSE Throw("AIErr")

\* Variant: the switch defaults and the final else return the operator unchanged
\* instead of throwing.
getOperatorScript_NoThrow(datatype, operator) ==
  IF datatype = "boolean" THEN Token("is")
  ELSE IF datatype = "number" THEN
    CASE operator = "=" -> Token("EQUALTO")
      [] operator = "!=" -> Token("NOTEQUALTO")
      [] operator = "<" -> Token("LESSTHAN")
      [] operator = "<=" -> Token("LESSTHANOREQUALTO")
      [] operator = ">" -> Token("GREATERTHAN")
      [] operator = ">=" -> Token("GREATERTHANOREQUALTO")
      [] OTHER -> Token(operator)
  ELSE IF datatype = "date" THEN
    CASE operator = "=" -> Token("ON")
      [] operator = "!=" -> Token("NOTON")
      [] operator = "<" -> Token("BEFORE")
      [] operator = "<=" -> Token("ONORBEFORE")
      [] operator = ">" -> Token("AFTER")
      [] operator = ">=" -> Token("ONORAFTER")
      [] OTHER -> Token(operator)
  ELSE IF datatype = "string" THEN
    CASE operator \in {"=", "Like"} -> Token("CONTAINS")
      [] operator \in {"!=", "Not_Like"} -> Token("DOESNOTCONTAIN")
      [] OTHER -> Token(operator)
  ELSE IF datatype = "id" THEN
    CASE operator \in {"=", "Like"} -> Token("ANYOF")
      [] operator \in {"!=", "Not_Like"} -> Token("NONEOF")
      [] OTHER -> Token(operator)
  ELSE Token(operator)

\* helper.ts 107-199: the structured backend.
getOperatorScript(datatype, operator) ==
  IF datatype = "boolean" THEN Token("is")
  ELSE IF datatype = "number" THEN
    CASE operator = "=" -> Token("EQUALTO")
      [] operator = "!=" -> Token("NOTEQUALTO")
      [] operator = "<" -> Token("LESSTHAN")
      [] operator = "<=" -> Token("LESSTHANOREQUALTO")
      [] operator = ">" -> Token("GREATERTHAN")
      [] operator = ">=" -> Token("GREATERTHANOREQUALTO")
      [] OTHER -> Throw("AIErr")
  ELSE IF datatype = "date" THEN
    CASE operator = "=" -> Token("ON")
      [] operator = "!=" -> Token("NOTON")
      [] operator = "<" -> Token("BEFORE")
      [] operator = "<=" -> Token("ONORBEFORE")
      [] operator = ">" -> Token("AFTER")
      [] operator = ">=" -> Token("ONORAFTER")
      [] OTHER -> Throw("AIErr")
  ELSE IF datatype = "string" THEN
    CASE operator \in {"=", "Like"} -> Token("CONTAINS")
      [] operator \in {"!=", "Not_Like"} -> Token("DOESNOTCONTAIN")
      [] OTHER -> Throw("AIErr")
  ELSE IF datatype = "id" THEN
    CASE operator \in {"=", "Like"} -> Token("ANYOF")
      [] operator \in {"!=", "Not_Like"} -> Token("NONEOF")
      [] OTHER -> Throw("AIErr")
  ELSE Throw("AIErr")

getOperator(reqtype, datatype, operator) ==
  IF reqtype = "sql" THEN getOperatorSql(datatype, operator)
  ELSE getOperatorScript(datatype, operator)

(***************************************************************************)
(* Column maps.  A map is the sequence of its entries in declaration       *)
(* order; Columns[key] is the entry of that key, and is undefined (falsy)  *)
(* when the key is absent.                                                 *)
(***************************************************************************)
Keys(Columns) == [i \in 1..Len(Columns) |-> Columns[i].key]

HasCol(Columns, key) == \E i \in 1..Len(Columns) : Columns[i].key = key

Col(Columns, key) == Columns[CHOOSE i \in 1..Len(Columns) : Columns[i].key = key]

(***************************************************************************)
(* Dates (luxon).  DateTime.fromISO(v).toFormat(f): an ISO date is         *)
(* rendered in the pattern, anything else gives luxon's invalid marker.    *)
(***************************************************************************)
IsoDates == {"2024-01-31", "2024-02-01"}

ISOToFormat(date, format) ==
  IF date \notin IsoDates THEN "Invalid DateTime"
  ELSE IF format = "yyyyMMdd" THEN
    (IF date = "2024-01-31" THEN "20240131" ELSE "20240201")
  ELSE IF format = "M/d/yyyy" THEN
    (IF date = "2024-01-31" THEN "1/31/2024" ELSE "2/1/2024")
  ELSE IF format = "d/M/yyyy" THEN
    (IF date = "2024-01-31" THEN "31/1/2024" ELSE "1/2/2024")
  ELSE format

(***************************************************************************)
(* Textual compiler.                                                       *)
(***************************************************************************)
\* helper.ts 254-262: the value of one filter, by the column's type.
formattedValueSQL(columnConfig, filter) ==
  IF columnConfig.type = "date"
    THEN " TO_DATE('" \o ISOToFormat(filter.Value, "yyyyMMdd") \o "', 'YYYYMMDD') "
  ELSE IF columnConfig.type = "string" THEN " '%" \o filter.Value \o "%' "
  ELSE " '" \o filter.Value \o "' "

\* Variant: a filter on a column missing from the map is rendered on its
\* logical name instead of being skipped.
RECURSIVE getFiltersSQLFrom_NoSkip(_, _, _)
getFiltersSQLFrom_NoSkip(Columns, filtersParams, filters) ==
  IF filtersParams = <<>> THEN filters
  ELSE
    LET filter == Head(filtersParams)
        known == HasCol(Columns, filter.Column)
        columnConfig == IF known THEN Col(Columns, filter.Column)
                        ELSE [sql |-> filter.Column, type |-> "string"]
        operator == getOperator("sql", columnConfig.type, filter.Operator)
        sep == IF filters # "" THEN " AND " ELSE ""
    IN getFiltersSQLFrom_NoSkip(Columns, Tail(filtersParams),
         filters \o sep \o columnConfig.sql \o " " \o operator.token \o " "
                 \o formattedValueSQL(columnConfig, filter))

\* helper.ts 230-279: the loop over the filters, filters being the text built so far.
RECURSIVE getFiltersSQLFrom(_, _, _)
getFiltersSQLFrom(Columns, filtersParams, filters) ==
  IF filtersParams = <<>> THEN filters
  ELSE
    LET filter == Head(filtersParams) IN
    IF ~HasCol(Columns, filter.Column)
      THEN getFiltersSQLFrom(Columns, Tail(filtersParams), filters)
    ELSE
      LET columnConfig == Col(Columns, filter.Column)
          operator == getOperator("sql", columnConfig.type, filter.Operator)
          sep == IF filters # "" THEN " AND " ELSE ""
      IN getFiltersSQLFrom(Columns, Tail(filtersParams),
           filters \o sep \o columnConfig.sql \o " " \o operator.token \o " "
                   \o formattedValueSQL(columnConfig, filter))

getFiltersSQL(Columns, filtersParams) == getFiltersSQLFrom(Columns, filtersParams, "")

\* helper.ts 316-321
columnsSQL(Columns) ==
  LET parts == [i \in 1..Len(Columns) |->
                  IF Columns[i].filterOnly # TRUE
                    THEN Columns[i].sql \o " AS " \o Columns[i].key ELSE ""]
      NonEmpty(k) == k # ""
  IN JoinWith(SelectSeq(parts, NonEmpty), ", ")

\* helper.ts 333
limitSQL(params) ==
  IF params.CountOnly = TRUE THEN ""
  ELSE IF params.Limit # <<>> /\ params.Limit[1] # 0 THEN "TOP " \o ToString(params.Limit[1])
  ELSE ""

\* helper.ts 335-338
selectSQL(Columns, params) ==
  IF params.CountOnly = TRUE THEN "COUNT(*) AS Count"
  ELSE limitSQL(params) \o " " \o columnsSQL(Columns)

\* Variant: the count-mode test of the order clause is missing.
OrderBySQL_NoCountTest(Columns, params, defaultSort) ==
  IF params.OrderBy # <<>> /\ HasCol(Columns, params.OrderBy[1].Column)
    THEN Col(Columns, params.OrderBy[1].Column).sql \o " " \o params.OrderBy[1].SortOrder
  ELSE IF HasCol(Columns, defaultSort.Column)
    THEN Col(Columns, defaultSort.Column).sql \o " " \o defaultSort.SortOrder
  ELSE ""

\* Variant: the fallback keeps the requested direction instead of the default one.
OrderBySQL_RequestedDirection(Columns, params, defaultSort) ==
  IF params.CountOnly = TRUE THEN ""
  ELSE IF params.OrderBy # <<>> /\ HasCol(Columns, params.OrderBy[1].Column)
    THEN Col(Columns, params.OrderBy[1].Column).sql \o " " \o params.OrderBy[1].SortOrder
  ELSE IF HasCol(Columns, defaultSort.Column)
    THEN Col(Columns, defaultSort.Column).sql \o " "
           \o (IF params.OrderBy # <<>> THEN params.OrderBy[1].SortOrder
               ELSE defaultSort.SortOrder)
  ELSE ""

\* helper.ts 340-347
OrderBySQL(Columns, params, defaultSort) ==
  IF params.CountOnly = TRUE THEN ""
  ELSE IF params.OrderBy # <<>> /\ HasCol(Columns, params.OrderBy[1].Column)
    THEN Col(Columns, params.OrderBy[1].Column).sql \o " " \o params.OrderBy[1].SortOrder
  ELSE IF HasCol(Columns, defaultSort.Column)
    THEN Col(Columns, defaultSort.Column).sql \o " " \o defaultSort.SortOrder
  ELSE ""

\* Variant: the connective is added whether or not an inbuilt fragment precedes.
filtersSQL_AlwaysAnd(Columns, params, inbuiltFilter) ==
  LET filterString == getFiltersSQL(Columns, params.Filters)
      inbuilt == IF inbuiltFilter # "" THEN " " \o inbuiltFilter ELSE ""
  IN IF filterString # "" THEN inbuilt \o " AND " \o filterString ELSE inbuilt

\* helper.ts 362-365
filtersSQL(Columns, params, inbuiltFilter) ==
  LET filterString == getFiltersSQL(Columns, params.Filters)
      inbuilt == IF inbuiltFilter # "" THEN " " \o inbuiltFilter ELSE ""
  IN IF filterString # ""
       THEN inbuilt \o (IF inbuilt # "" THEN " AND " ELSE "") \o filterString
       ELSE inbuilt

\* helper.ts 295-397
formatSQL(sql, Columns, params, inbuiltFilter, defaultSort) ==
  LET OrderBy == OrderBySQL(Columns, params, defaultSort)
      filters == filtersSQL(Columns, params, inbuiltFilter)
      s1 == Replace(sql, "{Columns}", selectSQL(Columns, params))
      s2 == Replace(s1, "{OrderBy}", IF OrderBy # "" THEN "ORDER BY " \o OrderBy ELSE "")
  IN Replace(s2, "{Filters}", IF filters # "" THEN "WHERE " \o filters ELSE "")

(***************************************************************************)
(* JavaScript values of result rows.  A value is its type tag t and its    *)
(* text s = String(value); a number is identified by its canonical decimal *)
(* text, so the string "4010" and the number 4010 are different values.    *)
(***************************************************************************)
Str(x) == [t |-> "string", s |-> x]
Num(x) == [t |-> "number", s |-> x]
Bool(b) == [t |-> "boolean", s |-> IF b THEN "true" ELSE "false"]
Null == [t |-> "null", s |-> "null"]
Undefined == [t |-> "undefined", s |-> "undefined"]

\* if (value): undefined, null, "", 0, NaN and false are falsy.
Truthy(v) ==
  ~ \/ v.t \in {"null", "undefined"}
    \/ (v.t = "string" /\ v.s = "")
    \/ (v.t = "number" /\ v.s \in {"0", "NaN"})
    \/ (v.t = "boolean" /\ v.s = "false")

\* parseFloat(text): the number of the longest numeric prefix, NaN without one.
parseFloat(text) ==
  CASE text \in {"4010", "123.45", "42", "100.5", "0", "1", "2", "3"} -> Num(text)
    [] text = "007" -> Num("7")
    [] text = "12abc" -> Num("12")
    [] text = "1.50" -> Num("1.5")
    [] OTHER -> Num("NaN")

\* String.prototype.toLowerCase on the key spellings of the model.
toLowerCase(key) ==
  CASE key \in {"ACCTNUMBER", "AcctNumber", "acctnumber"} -> "acctnumber"
    [] key \in {"AMOUNT", "Amount", "amount"} -> "amount"
    [] key \in {"AccountNumber", "ACCOUNTNUMBER", "accountnumber"} -> "accountnumber"
    [] key \in {"ID", "Id", "id"} -> "id"
    [] key \in {"NAME", "Name", "name"} -> "name"
    [] key \in {"PARENTID", "ParentId", "parentid"} -> "parentid"
    [] key \in {"ISINACTIVE", "IsInactive", "isinactive"} -> "isinactive"
    [] key \in {"STARTDATE", "StartDate", "startdate"} -> "startdate"
    [] OTHER -> key

\* DateUtil.FormatToISO: DateTime.fromFormat(text, format, UTC).toISO() ?? "".
FormatToISO(date, format) ==
  CASE format = "M/d/yyyy" /\ date = "1/31/2024" -> "2024-01-31T00:00:00.000Z"
    [] format = "M/d/yyyy" /\ date = "2/1/2024" -> "2024-02-01T00:00:00.000Z"
    [] format = "d/M/yyyy" /\ date = "31/1/2024" -> "2024-01-31T00:00:00.000Z"
    [] format = "d/M/yyyy" /\ date = "1/2/2024" -> "2024-02-01T00:00:00.000Z"
    [] format = "d/M/yyyy" /\ date = "2/1/2024" -> "2024-01-02T00:00:00.000Z"
    [] OTHER -> ""

(***************************************************************************)
(* Objects: a sequence of entries [k, v] in insertion order.               *)
(***************************************************************************)
ObjKeys(obj) == [i \in 1..Len(obj) |-> obj[i].k]

ObjHas(obj, key) == \E i \in 1..Len(obj) : obj[i].k = key

ObjGet(obj, key) ==
  IF ObjHas(obj, key) THEN obj[CHOOSE i \in 1..Len(obj) : obj[i].k = key].v ELSE Undefined

\* obj[key] = value: an existing key keeps its place.
ObjPut(obj, key, value) ==
  IF ObjHas(obj, key)
    THEN [i \in 1..Len(obj) |-> IF obj[i].k = key THEN [k |-> key, v |-> value] ELSE obj[i]]
    ELSE Append(obj, [k |-> key, v |-> value])

\* delete obj[key]
ObjDelete(obj, key) ==
  LET Other(e) == e.k # key IN SelectSeq(obj, Other)

\* Object.keys(obj).find((key) => key.toLowerCase() === sourceKey.toLowerCase()):
\* <<>> when no key matches, else <<the first matching key>>.
FindMatchingKey(obj, sourceKey) ==
  LET hits == {i \in 1..Len(obj) : toLowerCase(obj[i].k) = toLowerCase(sourceKey)} IN
  IF hits = {} THEN <<>>
  ELSE <<obj[CHOOSE i \in hits : \A j \in hits : i <= j].k>>

(***************************************************************************)
(* Result normalizers.                                                     *)
(***************************************************************************)
\* transform.ts 31-48: the coercion of one present value by the declared type.
coerce(field, value) ==
  IF field.type = "number" THEN parseFloat(value.s)
  ELSE IF field.type = "date" /\ field.format # <<>>
    THEN Str(FormatToISO(value.s, field.format[1]))
  ELSE IF field.type = "boolean" THEN
    (IF value.s = "1" THEN Bool(TRUE) ELSE IF value.s = "0" THEN Bool(FALSE) ELSE value)
  ELSE value

\* transform.ts 23-24
sourceKeyOf(field) == IF field.name # <<>> THEN field.name[1] ELSE field.key

\* transform.ts 22-51: the forEach over the column map, newObj being the record so far.
RECURSIVE transformRowFrom(_, _, _)
transformRowFrom(obj, propertyNames, newObj) ==
  IF propertyNames = <<>> THEN newObj
  ELSE
    LET field == Head(propertyNames)
        sourceKey == sourceKeyOf(field)
        matchingKey == FindMatchingKey(obj, sourceKey)
    IN IF /\ matchingKey # <<>>
          /\ matchingKey[1] # ""
          /\ ObjGet(obj, matchingKey[1]).t \notin {"null", "undefined"}
         THEN transformRowFrom(obj, Tail(propertyNames),
                ObjPut(newObj, sourceKey, coerce(field, ObjGet(obj, matchingKey[1]))))
         ELSE transformRowFrom(obj, Tail(propertyNames), newObj)

\* transform.ts 12-54
transform(jsonArray, propertyNames) ==
  [r \in 1..Len(jsonArray) |-> transformRowFrom(jsonArray[r], propertyNames, <<>>)]

\* transform.ts 66-76: the coercion of the positional variant.
coerceArray(field, value) ==
  IF field.type = "number" THEN parseFloat(value.s)
  ELSE IF field.type = "date" /\ field.format # <<>>
    THEN Str(FormatToISO(value.s, field.format[1]))
  ELSE value

\* transform.ts 64-78: the forEach with its index.
RECURSIVE transformArrayRowFrom(_, _, _, _)
transformArrayRowFrom(obj, propertyNames, index, newObj) ==
  IF index > Len(propertyNames) THEN newObj
  ELSE
    LET field == propertyNames[index]
        value == IF index <= Len(obj) THEN obj[index] ELSE Undefined
    IN IF Truthy(value)
         THEN transformArrayRowFrom(obj, propertyNames, index + 1,
                ObjPut(newObj, field.key, coerceArray(field, value)))
         ELSE transformArrayRowFrom(obj, propertyNames, index + 1, newObj)

\* transform.ts 55-81
transformArray(jsonArray, propertyNames) ==
  [r \in 1..Len(jsonArray) |-> transformArrayRowFrom(jsonArray[r], propertyNames, 1, <<>>)]

(***************************************************************************)
(* Structured compiler.                                                    *)
(***************************************************************************)
MAX_ARRAY_ITEMS == 10000

\* formula.split(':'): the parts of the formula texts of the model.
SplitColon(text) ==
  CASE text = "formulatext: {entity}" -> <<"formulatext", " {entity}">>
    [] text = "formulanumeric: {amount}" -> <<"formulanumeric", " {amount}">>
    [] OTHER -> <<text>>

\* String.prototype.trim
Trim(text) ==
  CASE text = " {entity}" -> "{entity}"
    [] text = " {amount}" -> "{amount}"
    [] OTHER -> text

\* helper.ts 552-558: the backend reference a filter is applied to.
colNameSearch(c) ==
  IF c.filterformula # <<>> THEN <<c.filterformula[1]>>
  ELSE IF c.formula # <<>> THEN <<c.formula[1]>>
  ELSE IF c.join # <<>> THEN <<c.join[1], ".", c.name>>
  ELSE <<c.name>>

\* helper.ts 564-567
valueSearch(c, filter) ==
  IF c.type = "date"
    THEN ISOToFormat(filter.Value, IF c.format # <<>> THEN c.format[1] ELSE "M/d/yyyy")
  ELSE filter.Value

\* helper.ts 549-570: the loop over the filters, filters being the list built so far.
\* Columns[filter.Column] of an absent column is undefined, and reading a
\* property of it throws a TypeError.
RECURSIVE getFiltersSearchFrom(_, _, _)
getFiltersSearchFrom(Columns, filtersParams, filters) ==
  IF filtersParams = <<>> THEN [ok |-> TRUE, filters |-> filters]
  ELSE
    LET filter == Head(filtersParams)
        withAnd == IF Len(filters) # 0 THEN Append(filters, <<"AND">>) ELSE filters
    IN IF ~HasCol(Columns, filter.Column) THEN Throw("TypeError")
       ELSE
         LET c == Col(Columns, filter.Column)
             operator == getOperator("script",
                           IF c.filtertype # <<>> THEN c.filtertype[1] ELSE c.type,
                           filter.Operator)
         IN IF ~operator.ok THEN operator
            ELSE getFiltersSearchFrom(Columns, Tail(filtersParams),
                   Append(withAnd, <<colNameSearch(c), operator.token, valueSearch(c, filter)>>))

\* helper.ts 544-572
getFiltersSearch(Columns, filtersParams) == getFiltersSearchFrom(Columns, filtersParams, <<>>)

\* helper.ts 603-608: <<column, direction>>
OrderBySearch(params, defaultSort) ==
  IF params.CountOnly = TRUE THEN <<"", "">>
  ELSE IF params.OrderBy # <<>>
    THEN <<params.OrderBy[1].Column,
           IF params.OrderBy[1].SortOrder # "" THEN params.OrderBy[1].SortOrder ELSE "ASC">>
  ELSE <<defaultSort.Column, defaultSort.SortOrder>>

\* helper.ts 610-625: every key is mapped, a filter-only column to the empty
\* object {} (here <<>>), and the empty objects are filtered out.
columnsSearch(Columns, OrderBy) ==
  LET Descriptor(c) ==
        [name |-> IF c.formula # <<>> THEN Trim(SplitColon(c.formula[1])[1]) ELSE c.name,
         txt |-> c.txt,
         join |-> c.join,
         summary |-> c.summary,
         formula |-> IF c.formula # <<>> THEN <<Trim(SplitColon(c.formula[1])[2])>> ELSE <<>>,
         sort |-> IF c.key = OrderBy[1] THEN <<OrderBy[2]>> ELSE <<>>]
      mapped == [i \in 1..Len(Columns) |->
                   IF Columns[i].filterOnly = TRUE THEN <<>> ELSE <<Descriptor(Columns[i])>>]
      NotEmpty(col) == col # <<>>
      kept == SelectSeq(mapped, NotEmpty)
  IN [i \in 1..Len(kept) |-> kept[i][1]]

\* helper.ts 627
maxResultsSearch(params) ==
  IF params.CountOnly = TRUE THEN 1
  ELSE IF params.Limit # <<>> /\ params.Limit[1] # 0 THEN params.Limit[1]
  ELSE 0

\* helper.ts 574-640
formatSearchObj(type, Columns, params, inbuiltFilter, defaultSort) ==
  LET OrderBy == OrderBySearch(params, defaultSort)
      filters == getFiltersSearch(Columns, params.Filters)
  IN IF ~filters.ok THEN filters
     ELSE [ok |-> TRUE,
           obj |-> [type |-> type,
                    filters |-> inbuiltFilter
                                \o (IF Len(inbuiltFilter) > 0 /\ Len(filters.filters) > 0
                                      THEN << <<"AND">> >> ELSE <<>>)
                                \o filters.filters,
                    columns |-> columnsSearch(Columns, OrderBy),
                    countOnly |-> FALSE,
                    maxResults |-> maxResultsSearch(params)]]

\* Variant: the ceiling test is missing.
exceedsCeiling_Never(maxResults) == FALSE

\* helper.ts 678
exceedsCeiling(maxResults) == maxResults > MAX_ARRAY_ITEMS

\* helper.ts 674-676: the defaults applied to the compiled descriptor.
withDefaults(obj) ==
  [obj EXCEPT !.countOnly = (obj.countOnly \/ FALSE),
              !.maxResults = IF obj.maxResults # 0 THEN obj.maxResults ELSE MAX_ARRAY_ITEMS]

\* Variant: the filter-only columns stay in the map handed to transformArray.
transformColumns_KeepFilterOnly(columns) ==
  [i \in 1..Len(columns) |->
     [key |-> columns[i].key,
      type |-> IF columns[i].type = "enum" THEN "string" ELSE columns[i].type,
      format |-> columns[i].format]]

\* helper.ts 743-755: the column map handed to transformArray.
transformColumns(columns) ==
  LET Projected(c) == c.filterOnly # TRUE
      kept == SelectSeq(columns, Projected)
  IN [i \in 1..Len(kept) |->
        [key |-> kept[i].key,
         type |-> IF kept[i].type = "enum" THEN "string" ELSE kept[i].type,
         format |-> kept[i].format]]

(***************************************************************************)
(* Inputs of the textual compiler.                                         *)
(***************************************************************************)
MaxFilters == 3

SqlColumnMap ==
  << [key |-> "Id", sql |-> "a.Id", type |-> "number", filterOnly |-> FALSE],
     [key |-> "Name", sql |-> "a.Name", type |-> "string", filterOnly |-> FALSE],
     [key |-> "Date", sql |-> "a.trandate", type |-> "date", filterOnly |-> TRUE] >>

SqlTemplates ==
  { "SELECT {Columns} FROM Account a",
    "SELECT {Columns} FROM Account a {Filters} {OrderBy}" }

SortOrders == {"ASC", "DESC"}

OrderBys ==
  {<<>>} \cup {<<[Column |-> c, SortOrder |-> o]>> :
                 c \in {"Id", "Name", "Nonexistent"}, o \in SortOrders}

SqlFilterParams ==
  { [Column |-> "Name", Operator |-> "=", Value |-> "Acme"],
    [Column |-> "Id", Operator |-> ">", Value |-> "5"],
    [Column |-> "Date", Operator |-> ">=", Value |-> "2024-01-31"],
    [Column |-> "Nonexistent", Operator |-> "Like", Value |-> "x"] }

Limits == {<<>>, <<0>>, <<5>>}

SqlParams ==
  [CountOnly : BOOLEAN, OrderBy : OrderBys,
   Filters : SeqsUpTo(SqlFilterParams, MaxFilters), Limit : Limits]

SqlDefaultSorts ==
  { [Column |-> "Name", SortOrder |-> "Asc"], [Column |-> "Missing", SortOrder |-> "Desc"] }

SqlInbuiltFilters == {"", "a.isinactive = 'F'"}

SqlIdle ==
  /\ sqlReq = [sql |-> "", Columns |-> <<>>,
               params |-> [CountOnly |-> FALSE, OrderBy |-> <<>>, Filters |-> <<>>,
                           Limit |-> <<>>],
               inbuiltFilter |-> "",
               defaultSort |-> [Column |-> "", SortOrder |-> ""]]
  /\ sqlRes = <<>>

SqlInit ==
  /\ sqlReq \in [sql : SqlTemplates, Columns : {SqlColumnMap}, params : SqlParams,
                  inbuiltFilter : SqlInbuiltFilters, defaultSort : SqlDefaultSorts]
  /\ sqlRes = <<>>

FormatSQLCall ==
  /\ task = "formatSQL"
  /\ sqlRes = <<>>
  /\ sqlRes' = <<formatSQL(sqlReq.sql, sqlReq.Columns, sqlReq.params,
                           sqlReq.inbuiltFilter, sqlReq.defaultSort)>>
  /\ UNCHANGED <<task, sqlReq, opVars, trVars, srVars, pgVars, hiVars, upVars, vpVars, exVars, gbVars, hsVars>>

OpInit ==
  /\ opReq \in [reqtype : ReqTypes, datatype : DataTypes, operator : Operators]
  /\ opRes = <<>>

GetOperatorCall ==
  /\ task = "getOperator"
  /\ opRes = <<>>
  /\ opRes' = <<getOperator(opReq.reqtype, opReq.datatype, opReq.operator)>>
  /\ UNCHANGED <<task, opReq, sqlVars, trVars, srVars, pgVars, hiVars, upVars, vpVars, exVars, gbVars, hsVars>>

OpIdle == opReq = [reqtype |-> "sql", datatype |-> "string", operator |-> "="] /\ opRes = <<>>


(***************************************************************************)
(* Inputs of the normalizers.                                              *)
(***************************************************************************)
MaxRowEntries == 2

RawValues == {Str("4010"), Str("123.45"), Str("1"), Num("0"), Null}

RawKeys == {"ACCTNUMBER", "AMOUNT", "Amount", "Id"}

\* Raw rows of the textual backend: objects with distinct keys.
RawRows ==
  {row \in SeqsUpTo([k : RawKeys, v : RawValues], MaxRowEntries) :
     \A i, j \in 1..Len(row) : i # j => row[i].k # row[j].k}

\* Raw rows of the structured backend: positional arrays.
RawArrays == SeqsUpTo(RawValues, MaxRowEntries)

TransformColumnMaps ==
  { << [key |-> "AccountNumber", name |-> <<"acctnumber">>, type |-> "string",
        format |-> <<>>],
       [key |-> "Amount", name |-> <<>>, type |-> "number", format |-> <<>>] >>,
    << [key |-> "Id", name |-> <<>>, type |-> "number", format |-> <<>>],
       [key |-> "Amount", name |-> <<>>, type |-> "boolean", format |-> <<>>] >> }

TrIdle == trReq = [rows |-> <<>>, propertyNames |-> <<>>] /\ trRes = <<>>

TrInit ==
  /\ \/ task = "transform" /\ trReq \in [rows : {<<r>> : r \in RawRows},
                                          propertyNames : TransformColumnMaps]
     \/ task = "transformArray" /\ trReq \in [rows : {<<r>> : r \in RawArrays},
                                               propertyNames : TransformColumnMaps]
  /\ trRes = <<>>

TransformCall ==
  /\ task = "transform"
  /\ trRes = <<>>
  /\ trRes' = <<transform(trReq.rows, trReq.propertyNames)>>
  /\ UNCHANGED <<task, trReq, opVars, sqlVars, srVars, pgVars, hiVars, upVars, vpVars, exVars, gbVars, hsVars>>

TransformArrayCall ==
  /\ task = "transformArray"
  /\ trRes = <<>>
  /\ trRes' = <<transformArray(trReq.rows, trReq.propertyNames)>>
  /\ UNCHANGED <<task, trReq, opVars, sqlVars, srVars, pgVars, hiVars, upVars, vpVars, exVars, gbVars, hsVars>>

(***************************************************************************)
(* The structured search helper.                                           *)
(***************************************************************************)
MaxItems == 1
MaxSearchFilters == 2

ScriptColumn(key, name, type) ==
  [key |-> key, name |-> name, type |-> type, filtertype |-> <<>>, format |-> <<>>,
   filterOnly |-> FALSE, formula |-> <<>>, filterformula |-> <<>>, txt |-> FALSE,
   join |-> <<>>, summary |-> <<>>]

ScriptColumnMap ==
  << ScriptColumn("Id", "internalid", "id"),
     ScriptColumn("Name", "entityid", "string"),
     [ScriptColumn("Period", "postingperiod", "string") EXCEPT !.filterOnly = TRUE],
     [ScriptColumn("Date", "trandate", "date") EXCEPT !.format = <<"M/d/yyyy">>],
     ScriptColumn("Amount", "amount", "number") >>

ScriptOrderBys == OrderBys \cup {<<[Column |-> "Name", SortOrder |-> ""]>>}

ScriptFilterParams ==
  { [Column |-> "Name", Operator |-> "=", Value |-> "Acme"],
    [Column |-> "Amount", Operator |-> "Like", Value |-> "5"],
    [Column |-> "Date", Operator |-> ">=", Value |-> "2024-01-31"],
    [Column |-> "Nonexistent", Operator |-> "=", Value |-> "x"] }

ScriptLimits == {<<>>, <<0>>, <<5>>, <<MAX_ARRAY_ITEMS>>, <<MAX_ARRAY_ITEMS + 1>>,
                 <<2 * MAX_ARRAY_ITEMS>>}

ScriptParams ==
  [CountOnly : BOOLEAN, OrderBy : ScriptOrderBys,
   Filters : SeqsUpTo(ScriptFilterParams, MaxSearchFilters), Limit : ScriptLimits]

ScriptInbuiltFilters == {<<>>, << <<<<"mainline">>, "is", "T">> >>}

\* process.env: whether NETSUITE_SEARCH_REST_LET and NETSUITE_ACCESS_TOKEN are set.
Envs == {[url |-> TRUE, token |-> TRUE], [url |-> FALSE, token |-> TRUE],
         [url |-> TRUE, token |-> FALSE]}

\* What the HTTP request can come back with: a transport failure, or a body.
Responses ==
  {[kind |-> "failure", success |-> FALSE, count |-> 0, items |-> <<>>]}
  \cup {[kind |-> "body", success |-> FALSE, count |-> 0, items |-> <<>>]}
  \cup [kind : {"body"}, success : {TRUE}, count : {0, 2},
         items : SeqsUpTo({<<Str("42"), Str("Acme"), Str("1/31/2024"), Str("100.5")>>,
                           <<Num("0"), Null>>}, MaxItems)]

SrIdle ==
  /\ srReq = [type |-> "", columns |-> <<>>,
              params |-> [CountOnly |-> FALSE, OrderBy |-> <<>>, Filters |-> <<>>,
                          Limit |-> <<>>],
              inbuiltFilter |-> <<>>, defaultSort |-> [Column |-> "", SortOrder |-> ""],
              env |-> [url |-> FALSE, token |-> FALSE]]
  /\ srPc = "idle"
  /\ srObj = <<>>
  /\ srSent = <<>>
  /\ srResp = <<>>
  /\ srRes = <<>>
  /\ gvRes = <<>>

SrInit ==
  /\ srReq \in [type : {"vendor"}, columns : {ScriptColumnMap}, params : ScriptParams,
                 inbuiltFilter : ScriptInbuiltFilters,
                 defaultSort : {[Column |-> "Id", SortOrder |-> "ASC"]},
                 env : Envs]
  /\ srPc = "start"
  /\ srObj = <<>>
  /\ srSent = <<>>
  /\ srResp = <<>>
  /\ srRes = <<>>
  /\ gvRes = <<>>

\* Column maps with filter-only columns at every combination of positions.
AlignColumnMaps ==
  { << [ScriptColumn("Id", "internalid", "id") EXCEPT !.filterOnly = f[1]],
       [ScriptColumn("Name", "entityid", "string") EXCEPT !.filterOnly = f[2]],
       [ScriptColumn("Date", "trandate", "date") EXCEPT !.format = <<"M/d/yyyy">>,
                                                        !.filterOnly = f[3]],
       [ScriptColumn("Amount", "amount", "number") EXCEPT !.filterOnly = f[4]] >> :
      f \in [1..4 -> BOOLEAN] }

SrInitAlign ==
  /\ srReq \in [type : {"vendor"}, columns : AlignColumnMaps,
                 params : {[CountOnly |-> FALSE, OrderBy |-> <<>>, Filters |-> <<>>,
                            Limit |-> <<>>]},
                 inbuiltFilter : {<<>>},
                 defaultSort : {[Column |-> "Id", SortOrder |-> "ASC"]},
                 env : {[url |-> TRUE, token |-> TRUE]}]
  /\ srPc = "start"
  /\ srObj = <<>>
  /\ srSent = <<>>
  /\ srResp = <<>>
  /\ srRes = <<>>
  /\ gvRes = <<>>

\* CFError.ts 8-14: the message of a CFError starts with its kind; any other
\* error keeps its own message.
errorMessage(e) ==
  IF e.name \in {"UserErr", "AIErr", "APIErr"} THEN e.name \o ":" \o "..."
  ELSE "Cannot read properties of undefined"

\* part_001 107-110: Id rendered as a string.
vendorsFinalData(vendors) ==
  [i \in 1..Len(vendors) |->
     ObjPut(vendors[i], "Id",
            IF ObjHas(vendors[i], "Id") THEN Str(ObjGet(vendors[i], "Id").s) ELSE Undefined)]

\* Variant: the error payload carries no timestamp.
getVendorsPayload_NoTimestamp(params, outcome) ==
  IF ~outcome.ok
    THEN [isError |-> TRUE, error |-> errorMessage(outcome),
          message |-> "Failed to get vendors from NetSuite"]
  ELSE IF params.CountOnly = TRUE THEN [isError |-> FALSE, Count |-> outcome.Count]
  ELSE [isError |-> FALSE, vendors |-> vendorsFinalData(outcome.items)]

\* part_001 71-165: what the get-vendors handler returns once searchRestlet
\* has returned or thrown.
getVendorsPayload(params, outcome) ==
  IF ~outcome.ok
    THEN [isError |-> TRUE, error |-> errorMessage(outcome),
          message |-> "Failed to get vendors from NetSuite", timestamp |-> "now"]
  ELSE IF params.CountOnly = TRUE THEN [isError |-> FALSE, Count |-> outcome.Count]
  ELSE [isError |-> FALSE, vendors |-> vendorsFinalData(outcome.items)]

\* helper.ts 642-713: searchRestlet up to the await of the HTTP request.  obj
\* is <<the compiled descriptor>> when the compilation returned, sent is <<the
\* body posted>> when the request is made, thrown is <<the error>> otherwise.
searchRestletRequest(req) ==
  LET compiled == formatSearchObj(req.type, req.columns, req.params,
                                  req.inbuiltFilter, req.defaultSort)
  IN IF ~compiled.ok THEN [obj |-> <<>>, sent |-> <<>>, thrown |-> <<compiled>>]
     ELSE
       LET searchRestletParams == withDefaults(compiled.obj) IN
       IF exceedsCeiling(searchRestletParams.maxResults)
         THEN [obj |-> <<compiled.obj>>, sent |-> <<>>, thrown |-> <<error(<<>>)>>]
       ELSE IF ~req.env.url \/ ~req.env.token
         THEN [obj |-> <<compiled.obj>>, sent |-> <<>>, thrown |-> <<error(<<"AIErr">>)>>]
       ELSE [obj |-> <<compiled.obj>>, sent |-> <<searchRestletParams>>, thrown |-> <<>>]

\* helper.ts 642-713, within part_001 68-166: from the invocation of
\* get-vendors through searchRestlet to the await of the HTTP request, or to
\* the handler's error payload.
SearchRestletCall ==
  /\ task = "searchRestlet"
  /\ srPc = "start"
  /\ LET r == searchRestletRequest(srReq) IN
       /\ srObj' = r.obj
       /\ srSent' = srSent \o r.sent
       /\ IF r.thrown # <<>>
            THEN srPc' = "error" /\ srRes' = r.thrown
            ELSE srPc' = "awaiting" /\ UNCHANGED srRes
  /\ gvRes' = IF srPc' = "error" THEN <<getVendorsPayload(srReq.params, srRes'[1])>>
              ELSE gvRes
  /\ UNCHANGED <<task, srReq, srResp, opVars, sqlVars, trVars, pgVars, hiVars, upVars, vpVars, exVars, gbVars, hsVars>>

\* helper.ts 715-810: what searchRestlet returns or throws once the HTTP
\* request has come back with resp.
searchRestletOutcome(req, resp) ==
  IF resp.kind = "failure" THEN error(<<"AIErr">>)
  ELSE IF resp.success = FALSE THEN Throw("APIErr")
  ELSE IF req.params.CountOnly = TRUE THEN [ok |-> TRUE, Count |-> resp.count]
  ELSE [ok |-> TRUE,
        items |-> transformArray(resp.items, transformColumns(req.columns))]

\* helper.ts 715-810, within part_001 68-166: from the HTTP response to the
\* return or the throw of searchRestlet, and to the handler's payload.
SearchRestletResponse ==
  /\ task = "searchRestlet"
  /\ srPc = "awaiting"
  /\ \E resp \in Responses :
       /\ srResp' = <<resp>>
       /\ srRes' = <<searchRestletOutcome(srReq, resp)>>
       /\ srPc' = IF srRes'[1].ok THEN "done" ELSE "error"
  /\ gvRes' = <<getVendorsPayload(srReq.params, srRes'[1])>>
  /\ UNCHANGED <<task, srReq, srObj, srSent, opVars, sqlVars, trVars, pgVars, hiVars, upVars, vpVars, exVars, gbVars, hsVars>>

(***************************************************************************)
(* The textual executor.                                                   *)
(***************************************************************************)
\* part_007 157-196: netsuiteRequest.  env tells whether NETSUITE_REST_URL and
\* NETSUITE_ACCESS_TOKEN are set; met is what the HTTP request comes back with.
netsuiteRequest(env, met) ==
  IF ~env.url \/ ~env.token THEN Throw("Error")
  ELSE IF met.kind = "failure" THEN Throw("AxiosError")
  ELSE [ok |-> TRUE, data |-> met.data]

\* helper.ts 430-542: the fields of the body default to 0, [] and false; any
\* error of the request is raised again as AIErr.
executeSuiteQL(env, met) ==
  LET r == netsuiteRequest(env, met) IN
  IF ~r.ok THEN error(<<"AIErr">>)
  ELSE [ok |-> TRUE,
        items |-> IF r.data.items # <<>> THEN r.data.items[1] ELSE <<>>,
        hasMore |-> IF r.data.hasMore # <<>> THEN r.data.hasMore[1] ELSE FALSE,
        offset |-> IF r.data.offset # <<>> THEN r.data.offset[1] ELSE 0,
        count |-> IF r.data.count # <<>> THEN r.data.count[1] ELSE 0]

\* Bodies of the SuiteQL endpoint: each field is <<>> (missing) or <<value>>.
SuiteQLBodies ==
  [items : {<<>>, <<<<[k |-> "id", v |-> Str("1")]>>>>},
   hasMore : {<<>>, <<TRUE>>, <<FALSE>>},
   offset : {<<>>, <<0>>, <<1>>},
   count : {<<>>, <<0>>, <<1>>}]

SuiteQLMet ==
  {[kind |-> "failure", data |-> [items |-> <<>>, hasMore |-> <<>>, offset |-> <<>>,
                                  count |-> <<>>]]}
  \cup [kind : {"body"}, data : SuiteQLBodies]

ExIdle ==
  /\ exReq = [env |-> [url |-> FALSE, token |-> FALSE],
              met |-> [kind |-> "failure",
                       data |-> [items |-> <<>>, hasMore |-> <<>>, offset |-> <<>>,
                                 count |-> <<>>]]]
  /\ exRes = <<>>

ExInit ==
  /\ exReq \in [env : Envs, met : SuiteQLMet]
  /\ exRes = <<>>

ExecuteSuiteQLCall ==
  /\ task = "executeSuiteQL"
  /\ exRes = <<>>
  /\ exRes' = <<executeSuiteQL(exReq.env, exReq.met)>>
  /\ UNCHANGED <<task, exReq, opVars, sqlVars, trVars, srVars, pgVars, hiVars, upVars, vpVars,
                 gbVars, hsVars>>

(***************************************************************************)
(* The required filters of the transaction tools.                          *)
(***************************************************************************)
MaxValidateFilters == 2

\* Variant: the test for a filter on Period is missing.
validateParamFilters_NoPeriodTest(params, check) ==
  LET merged == [period |-> IF check.period # <<>> THEN check.period[1] ELSE TRUE,
                 date |-> IF check.date # <<>> THEN check.date[1] ELSE TRUE]
      Filters == params.Filters
  IN IF Filters = <<>> THEN error(<<"AIErr">>)
     ELSE IF merged.date = TRUE
             /\ ~\E i \in 1..Len(Filters) : Filters[i].Column \in {"Date", "DueDate"}
       THEN error(<<"AIErr">>)
     ELSE [ok |-> TRUE]

\* helper.ts 813-834.  check is the caller's partial record, each field <<>>
\* or <<value>>; lodash.merge lays it over {period: true, date: true}.
validateParamFilters(params, check) ==
  LET merged == [period |-> IF check.period # <<>> THEN check.period[1] ELSE TRUE,
                 date |-> IF check.date # <<>> THEN check.date[1] ELSE TRUE]
      Filters == params.Filters
  IN IF Filters = <<>> THEN error(<<"AIErr">>)
     ELSE IF merged.period = TRUE /\ \E i \in 1..Len(Filters) : Filters[i].Column = "Period"
       THEN error(<<"AIErr">>)
     ELSE IF merged.date = TRUE
             /\ ~\E i \in 1..Len(Filters) : Filters[i].Column \in {"Date", "DueDate"}
       THEN error(<<"AIErr">>)
     ELSE [ok |-> TRUE]

ValidateFilters ==
  [Column : {"Period", "Date", "DueDate", "Name"}, Operator : {"="}, Value : {"2024-01-31"}]

VpIdle ==
  /\ vpReq = [params |-> [Filters |-> <<>>], check |-> [period |-> <<>>, date |-> <<>>]]
  /\ vpRes = <<>>

VpInit ==
  /\ vpReq \in [params : [Filters : SeqsUpTo(ValidateFilters, MaxValidateFilters)],
                 check : [period : {<<>>, <<FALSE>>}, date : {<<>>, <<FALSE>>}]]
  /\ vpRes = <<>>

ValidateParamFiltersCall ==
  /\ task = "validateParamFilters"
  /\ vpRes = <<>>
  /\ vpRes' = <<validateParamFilters(vpReq.params, vpReq.check)>>
  /\ UNCHANGED <<task, vpReq, opVars, sqlVars, trVars, srVars, pgVars, hiVars, upVars, exVars, gbVars, hsVars>>

(***************************************************************************)
(* The get-bills tool: required filters, then the structured search.       *)
(***************************************************************************)
\* part_002 26-28, 46: columns of get-bills.
BillsColumns ==
  << ScriptColumn("Id", "internalid", "id"),
     [ScriptColumn("Date", "trandate", "date") EXCEPT !.format = <<"M/d/yyyy">>],
     [ScriptColumn("Period", "postingperiod", "string") EXCEPT !.txt = TRUE],
     ScriptColumn("Amount", "amount", "number") >>

\* part_002 163
BillsInbuiltFilter == << <<"type", "anyof", "VendBill", "VendCred", "VendPymt">> >>

\* part_002 204-208: Id rendered as a string, a textual Amount parsed.
billsFinalData(bills) ==
  [i \in 1..Len(bills) |->
     LET withId == ObjPut(bills[i], "Id",
                          IF ObjHas(bills[i], "Id") THEN Str(ObjGet(bills[i], "Id").s)
                          ELSE Undefined)
         Amount == ObjGet(bills[i], "Amount")
     IN ObjPut(withId, "Amount", IF Amount.t = "string" THEN parseFloat(Amount.s) ELSE Amount)]

\* part_002 176-262: what the handler returns for the outcome of its try block.
getBillsPayload(params, outcome) ==
  IF ~outcome.ok
    THEN [isError |-> TRUE, error |-> errorMessage(outcome),
          message |-> "Failed to get bills from NetSuite", timestamp |-> "now"]
  ELSE IF params.CountOnly = TRUE THEN [isError |-> FALSE, Count |-> outcome.Count]
  ELSE [isError |-> FALSE, bills |-> billsFinalData(outcome.items)]

GbIdle ==
  /\ gbReq = [type |-> "", columns |-> <<>>,
              params |-> [CountOnly |-> FALSE, OrderBy |-> <<>>, Filters |-> <<>>,
                          Limit |-> <<>>],
              inbuiltFilter |-> <<>>, defaultSort |-> [Column |-> "", SortOrder |-> ""],
              env |-> [url |-> FALSE, token |-> FALSE]]
  /\ gbPc = "idle"
  /\ gbSent = <<>>
  /\ gbRes = <<>>

GbInit ==
  /\ gbReq \in [type : {"transaction"}, columns : {BillsColumns},
                 params : [CountOnly : BOOLEAN, OrderBy : {<<>>},
                           Filters : SeqsUpTo(ValidateFilters, MaxValidateFilters),
                           Limit : {<<>>}],
                 inbuiltFilter : {BillsInbuiltFilter},
                 defaultSort : {[Column |-> "Date", SortOrder |-> "DESC"]},
                 env : Envs]
  /\ gbPc = "start"
  /\ gbSent = <<>>
  /\ gbRes = <<>>

\* part_002 157-174: validateParamFilters, then searchRestlet up to the await
\* of the HTTP request; an error thrown by either goes to the catch block.
GetBillsInvoke ==
  /\ task = "get-bills"
  /\ gbPc = "start"
  /\ LET valid == validateParamFilters(gbReq.params, [period |-> <<>>, date |-> <<>>]) IN
       IF ~valid.ok
         THEN /\ gbPc' = "done"
              /\ gbRes' = <<getBillsPayload(gbReq.params, valid)>>
              /\ UNCHANGED gbSent
       ELSE
         LET r == searchRestletRequest(gbReq) IN
         IF r.thrown # <<>>
           THEN /\ gbPc' = "done"
                /\ gbRes' = <<getBillsPayload(gbReq.params, r.thrown[1])>>
                /\ UNCHANGED gbSent
           ELSE /\ gbPc' = "awaiting"
                /\ gbSent' = gbSent \o r.sent
                /\ UNCHANGED gbRes
  /\ UNCHANGED <<task, gbReq, opVars, sqlVars, trVars, srVars, pgVars, hiVars, upVars, vpVars,
                 exVars, hsVars>>

\* part_002 165-262: the HTTP request settles and the handler returns.
GetBillsResponse ==
  /\ task = "get-bills"
  /\ gbPc = "awaiting"
  /\ \E resp \in Responses :
       gbRes' = <<getBillsPayload(gbReq.params, searchRestletOutcome(gbReq, resp))>>
  /\ gbPc' = "done"
  /\ UNCHANGED <<task, gbReq, gbSent, opVars, sqlVars, trVars, srVars, pgVars, hiVars, upVars,
                 vpVars, exVars, hsVars>>

(***************************************************************************)
(* Hierarchy resolver: the flat parent-number rewrite.                     *)
(***************************************************************************)
\* new Map(data.map((item) => [item.Id, item])).get(id): the last item of that
\* Id, <<>> when there is none.
idToItem(data, id) ==
  LET hits == {i \in 1..Len(data) : ObjGet(data[i], "Id") = id} IN
  IF hits = {} THEN <<>> ELSE <<data[CHOOSE i \in hits : \A j \in hits : j <= i]>>

\* part_000 206-215: the body of the forEach for one item.
updateParentNumberOfItem(data, item) ==
  IF Truthy(ObjGet(item, "ParentId")) THEN
    LET parentItem == idToItem(data, ObjGet(item, "ParentId"))
        withNumber == IF parentItem # <<>>
                        THEN ObjPut(item, "ParentNumber", ObjGet(parentItem[1], "AccountNumber"))
                        ELSE item
    IN ObjDelete(withNumber, "ParentId")
  ELSE item

\* part_000 201-218.  A parent's AccountNumber is never rewritten, so the items
\* can be taken independently of the order of the forEach.
updateParentNumberFromId(data) ==
  [i \in 1..Len(data) |-> updateParentNumberOfItem(data, data[i])]

MaxRecords == 2

\* Normalized account records: Id and AccountNumber, and a ParentId that is
\* absent, the Id of a listed or of an unlisted record, or 0.
AccountRecords ==
  {<<[k |-> "Id", v |-> id], [k |-> "AccountNumber", v |-> Str(n)]>> \o p :
     id \in {Num("1"), Num("2")}, n \in {"4000", "4010"},
     p \in {<<>>} \cup {<<[k |-> "ParentId", v |-> Num(x)]>> : x \in {"1", "2", "3", "0"}}}

UpIdle == upReq = <<>> /\ upRes = <<>>

UpInit == upReq \in SeqsUpTo(AccountRecords, MaxRecords) /\ upRes = <<>>

UpdateParentNumberFromIdCall ==
  /\ task = "updateParentNumberFromId"
  /\ upRes = <<>>
  /\ upRes' = <<updateParentNumberFromId(upReq)>>
  /\ UNCHANGED <<task, upReq, opVars, sqlVars, trVars, srVars, pgVars, hiVars, vpVars, exVars, gbVars, hsVars>>

(***************************************************************************)
(* Hierarchy resolver: the descendant expansion.                           *)
(***************************************************************************)
MaxAccounts == 3
MaxDepth == 4

AccountNumbers == {"4000", "4010", "4011", "1"}

\* AccountData records; the Id of a record is its position in the list.
AccountLists ==
  UNION {[1..n -> [AccountNumber : AccountNumbers,
                   ParentNumber : {<<>>} \cup {<<x>> : x \in AccountNumbers}]] :
         n \in 0..MaxAccounts}

IdOf(accountData, i) == i

\* GetAccountBalance.ts 345-347: the ids of the nodes whose ParentNumber is
\* currentNumb, in list order.
childrenOf(accountData, currentNumb) ==
  LET hit(i) == accountData[i].ParentNumber # <<>>
                /\ accountData[i].ParentNumber[1] = currentNumb
      RECURSIVE from(_)
      from(i) == IF i > Len(accountData) THEN <<>>
                 ELSE (IF hit(i) THEN <<IdOf(accountData, i)>> ELSE <<>>) \o from(i + 1)
  IN from(1)

\* GetAccountBalance.ts 366-367: the id of the first node whose AccountNumber
\* is Numb, if any.
selfAcc(accountData, Numb) ==
  LET hits == {i \in 1..Len(accountData) : accountData[i].AccountNumber = Numb} IN
  IF hits = {} THEN <<>>
  ELSE <<IdOf(accountData, CHOOSE i \in hits : \A j \in hits : i <= j)>>

\* GetAccountBalance.ts 357: the argument of the recursive call, child.toString().
findRecursivelyArg(accountData, child) == ToString(child)

HiIdle ==
  /\ hiReq = [accountData |-> <<>>, Numb |-> ""]
  /\ hiPc = "idle"
  /\ hiStack = <<>>
  /\ result = <<>>

HiInit ==
  /\ hiReq \in [accountData : AccountLists, Numb : {"4000", "1"}]
  /\ hiPc = "start"
  /\ hiStack = <<>>
  /\ result = <<>>

\* GetAccountBalance.ts 341-348, 366-368: the entry, up to the first
\* findRecursively(Numb) having pushed its children.
GetChildrenByNumberCall ==
  /\ task = "getChildrenByNumber"
  /\ hiPc = "start"
  /\ LET children == childrenOf(hiReq.accountData, hiReq.Numb) IN
       /\ result' = selfAcc(hiReq.accountData, hiReq.Numb) \o children
       /\ hiStack' = <<[children |-> children, next |-> 1]>>
  /\ hiPc' = "running"
  /\ UNCHANGED <<task, hiReq, opVars, sqlVars, trVars, srVars, pgVars, upVars, vpVars, exVars, gbVars, hsVars>>

\* GetAccountBalance.ts 344-348, 356-358: the innermost forEach takes its
\* next child and calls findRecursively on it.  The recursion is cut at
\* MaxDepth frames.
FindRecursivelyDescend ==
  /\ task = "getChildrenByNumber"
  /\ hiPc = "running"
  /\ hiStack # <<>>
  /\ Len(hiStack) < MaxDepth
  /\ LET top == hiStack[Len(hiStack)] IN
       /\ top.next <= Len(top.children)
       /\ LET children == childrenOf(hiReq.accountData,
                                      findRecursivelyArg(hiReq.accountData,
                                                         top.children[top.next]))
          IN /\ result' = result \o children
             /\ hiStack' = Append([hiStack EXCEPT ![Len(hiStack)].next = top.next + 1],
                                   [children |-> children, next |-> 1])
  /\ UNCHANGED <<task, hiReq, hiPc, opVars, sqlVars, trVars, srVars, pgVars, upVars, vpVars, exVars, gbVars, hsVars>>

\* GetAccountBalance.ts 356-359, 368-369: the innermost forEach is exhausted
\* and its findRecursively returns; the outermost return ends the expansion.
FindRecursivelyReturn ==
  /\ task = "getChildrenByNumber"
  /\ hiPc = "running"
  /\ hiStack # <<>>
  /\ LET top == hiStack[Len(hiStack)] IN top.next > Len(top.children)
  /\ hiStack' = SubSeq(hiStack, 1, Len(hiStack) - 1)
  /\ hiPc' = IF Len(hiStack) = 1 THEN "done" ELSE "running"
  /\ UNCHANGED <<task, hiReq, result, opVars, sqlVars, trVars, srVars, pgVars, upVars, vpVars, exVars, gbVars, hsVars>>

(***************************************************************************)
(* The get-accounts tool: the paged fetch loop.                            *)
(***************************************************************************)
MaxCalls == 3

AccountsSql == "SELECT {Columns} FROM Account a"

AccountsColumns ==
  << [key |-> "Id", sql |-> "a.Id", type |-> "number", filterOnly |-> FALSE,
      name |-> <<>>, format |-> <<>>],
     [key |-> "Name", sql |-> "a.accountSearchDisplayNameCopy", type |-> "string",
      filterOnly |-> FALSE, name |-> <<>>, format |-> <<>>],
     [key |-> "AccountNumber", sql |-> "a.acctNumber", type |-> "string",
      filterOnly |-> FALSE, name |-> <<>>, format |-> <<>>],
     [key |-> "ParentId", sql |-> "a.parent", type |-> "number", filterOnly |-> FALSE,
      name |-> <<>>, format |-> <<>>],
     [key |-> "Type", sql |-> "BUILTIN.DF(a.acctType)", type |-> "string",
      filterOnly |-> FALSE, name |-> <<>>, format |-> <<>>] >>

AccountsDefaultSort == [Column |-> "Name", SortOrder |-> "Asc"]

\* part_000 79-82
cleanInput(in) ==
  IF in.OrderBy # <<>> /\ in.OrderBy[1].SortOrder = ""
    THEN [in EXCEPT !.OrderBy = <<[Column |-> in.OrderBy[1].Column, SortOrder |-> "ASC"]>>]
    ELSE in

\* part_000 93-102
formattedSQL(in) == formatSQL(AccountsSql, AccountsColumns, cleanInput(in), "",
                              AccountsDefaultSort)

ToolInputs ==
  {[CountOnly |-> c, OrderBy |-> p[1], Filters |-> p[2], Limit |-> <<>>] :
     c \in BOOLEAN,
     p \in {<<<<>>, <<>>>>,
            <<<<[Column |-> "Name", SortOrder |-> "DESC"]>>,
              <<[Column |-> "Name", Operator |-> "=", Value |-> "Acme"]>>>>}}

\* Raw rows of the accounts query.
AccountRowA == << [k |-> "id", v |-> Str("1")], [k |-> "accountnumber", v |-> Str("4000")] >>
AccountRowB ==
  << [k |-> "id", v |-> Str("2")], [k |-> "accountnumber", v |-> Str("4010")],
     [k |-> "parentid", v |-> Str("1")] >>

Pages == {<<>>, <<AccountRowA>>, <<AccountRowB>>, <<AccountRowB, AccountRowA>>}

\* helper.ts 486-492: what executeSuiteQL returns.  The backend's offset and
\* count are taken as reported: the offset echoes the request or is 0 (also
\* when missing), the count is any small number (0 when missing).  hasMore is
\* capped by MaxCalls.
ExecutorResults(calls) ==
  [threw : {FALSE}, items : Pages,
   hasMore : {h \in BOOLEAN : h => Len(calls) < MaxCalls},
   offset : {0, calls[Len(calls)].offset}, count : 0..2]

\* helper.ts 513-531: executeSuiteQL rethrows any failure as CFError('AIErr').
ExecutorThrew == [threw |-> TRUE, items |-> <<>>, hasMore |-> FALSE, offset |-> 0, count |-> 0]

nextDataOffset_CountAlone(data) == data.count

\* Variant: the loop ends after the first page.
continueLoop_Never(data) == FALSE

\* part_000 139-143: the loop goes on exactly when the response reports more.
continueLoop(data) == data.hasMore

\* Variant: the count-mode test of the loop body is missing.
returnsCount_Never(in) == FALSE

\* part_000 122: if (input.CountOnly === true)
returnsCount(in) == in.CountOnly = TRUE

\* part_000 140: dataOffset = data.offset + data.count
nextDataOffset(data) == data.offset + data.count

\* part_000 149-153: Id rendered as a string.
finalData(processedData) ==
  [i \in 1..Len(processedData) |->
     ObjPut(processedData[i], "Id",
            IF ObjHas(processedData[i], "Id")
              THEN Str(ObjGet(processedData[i], "Id").s) ELSE Undefined)]

PgIdle ==
  /\ input = [CountOnly |-> FALSE, OrderBy |-> <<>>, Filters |-> <<>>, Limit |-> <<>>]
  /\ pgPc = "idle"
  /\ dataOffset = 0
  /\ totalData = <<>>
  /\ pgCalls = <<>>
  /\ pgData = <<>>
  /\ pgDelays = <<>>
  /\ pgRes = <<>>

PgInit ==
  /\ input \in ToolInputs
  /\ pgPc = "start"
  /\ dataOffset = 0
  /\ totalData = <<>>
  /\ pgCalls = <<>>
  /\ pgData = <<>>
  /\ pgDelays = <<>>
  /\ pgRes = <<>>

\* part_000 75-120: from the invocation to the await of the first executeSuiteQL;
\* dataOffset is 0, so no delay is taken.
GetAccountsInvoke ==
  /\ task = "get-accounts"
  /\ pgPc = "start"
  /\ pgCalls' = Append(pgCalls, [query |-> formattedSQL(input), offset |-> dataOffset])
  /\ pgPc' = "awaiting"
  /\ UNCHANGED <<task, input, dataOffset, totalData, pgData, pgDelays, pgRes,
                 opVars, sqlVars, trVars, srVars, hiVars, upVars, vpVars, exVars, gbVars, hsVars>>

\* part_000 117-197: executeSuiteQL settles; the loop body runs to the next await
\* (the delay, or the next call when dataOffset is still 0) or to the return.
GetAccountsExecutorReturns ==
  /\ task = "get-accounts"
  /\ pgPc = "awaiting"
  /\ \E data \in ExecutorResults(pgCalls) \cup {ExecutorThrew} :
       /\ pgData' = Append(pgData, data)
       /\ IF data.threw THEN
            /\ pgPc' = "done"
            /\ pgRes' = <<[isError |-> TRUE, error |-> errorMessage(Throw("AIErr")),
                           message |-> errorMessage(Throw("AIErr")),
                           timestamp |-> "now"]>>
            /\ UNCHANGED <<dataOffset, totalData, pgCalls, pgDelays>>
          ELSE IF returnsCount(input) THEN
            /\ pgPc' = "done"
            /\ pgRes' = <<[isError |-> FALSE, Count |-> data.count]>>
            /\ UNCHANGED <<dataOffset, totalData, pgCalls, pgDelays>>
          ELSE
            LET output == transform(data.items, AccountsColumns)
                total == totalData \o output
                next == nextDataOffset(data)
            IN /\ totalData' = total
               /\ IF continueLoop(data) THEN
                    /\ dataOffset' = next
                    /\ UNCHANGED pgRes
                    /\ IF next > 0
                         THEN pgPc' = "delay" /\ UNCHANGED <<pgCalls, pgDelays>>
                         ELSE /\ pgPc' = "awaiting"
                              /\ pgCalls' = Append(pgCalls, [query |-> formattedSQL(input),
                                                             offset |-> next])
                              /\ UNCHANGED pgDelays
                  ELSE
                    /\ pgPc' = "done"
                    /\ pgRes' = <<[isError |-> FALSE,
                                   accounts |-> finalData(updateParentNumberFromId(total))]>>
                    /\ UNCHANGED <<dataOffset, pgCalls, pgDelays>>
  /\ UNCHANGED <<task, input, opVars, sqlVars, trVars, srVars, hiVars, upVars, vpVars, exVars, gbVars, hsVars>>

\* part_000 112-120: the 100 ms timer fires and the next call is issued.
GetAccountsDelayElapsed ==
  /\ task = "get-accounts"
  /\ pgPc = "delay"
  /\ pgDelays' = Append(pgDelays, Len(pgCalls))
  /\ pgCalls' = Append(pgCalls, [query |-> formattedSQL(input), offset |-> dataOffset])
  /\ pgPc' = "awaiting"
  /\ UNCHANGED <<task, input, dataOffset, totalData, pgData, pgRes,
                 opVars, sqlVars, trVars, srVars, hiVars, upVars, vpVars, exVars, gbVars, hsVars>>

(***************************************************************************)
(* The HTTP server's session registry (http-server.ts).                    *)
(***************************************************************************)
MaxSessions == 2
MaxTimers == 4
MaxSweeps == 2
SessionIds == 1..MaxSessions

\* The registry as cleanupSession and resetSessionTimer see it.
Registry ==
  [transports |-> transports, sessionTimers |-> sessionTimers,
   pendingTimers |-> pendingTimers, timerCount |-> timerCount]

\* clearTimeout: the handle is no longer scheduled.
clearTimeout(pending, sessionId, handle) == pending \ {[sessionId |-> sessionId, handle |-> handle]}

\* Variant: the transport is removed and the timer entry is left in place.
cleanupSession_KeepTimer(reg, sessionId) ==
  [reg EXCEPT !.transports = @ \ {sessionId}]

\* http-server.ts 109-134.
cleanupSession(reg, sessionId) ==
  LET hasTimer == sessionId \in DOMAIN reg.sessionTimers IN
  [reg EXCEPT
     !.transports = @ \ {sessionId},
     !.pendingTimers = IF hasTimer
                         THEN clearTimeout(@, sessionId, reg.sessionTimers[sessionId])
                         ELSE @,
     !.sessionTimers = [id \in DOMAIN @ \ {sessionId} |-> @[id]]]

\* http-server.ts 97-107: the old timeout is cleared, a new one is scheduled
\* and stored under the session id.
resetSessionTimer(reg, sessionId) ==
  LET handle == reg.timerCount + 1
      cleared == IF sessionId \in DOMAIN reg.sessionTimers
                   THEN clearTimeout(reg.pendingTimers, sessionId, reg.sessionTimers[sessionId])
                   ELSE reg.pendingTimers
  IN [reg EXCEPT
        !.pendingTimers = cleared \cup {[sessionId |-> sessionId, handle |-> handle]},
        !.sessionTimers = [id \in DOMAIN @ \cup {sessionId} |->
                             IF id = sessionId THEN handle ELSE @[id]],
        !.timerCount = handle]

\* http-server.ts 83-93: the body of the periodic sweep; cleaning one session
\* up leaves the entries of the others alone, so the order does not matter.
RECURSIVE sweep(_, _)
sweep(reg, ids) ==
  IF ids = {} THEN reg
  ELSE LET sessionId == CHOOSE id \in ids : TRUE
           next == IF sessionId \notin DOMAIN reg.sessionTimers
                     THEN cleanupSession(reg, sessionId) ELSE reg
       IN sweep(next, ids \ {sessionId})

SetRegistry(reg) ==
  /\ transports' = reg.transports
  /\ sessionTimers' = reg.sessionTimers
  /\ pendingTimers' = reg.pendingTimers
  /\ timerCount' = reg.timerCount

HsIdle ==
  /\ transports = {}
  /\ sessionTimers = << >>
  /\ pendingTimers = {}
  /\ openTransports = {}
  /\ sessionCount = 0
  /\ timerCount = 0
  /\ sweepLog = <<>>
  /\ httpStatus = 0

\* http-server.ts 23-34: the state after construction.
HsInit == HsIdle

OthersIdleForHttp ==
  /\ task = "http-server"
  /\ OpIdle /\ SqlIdle /\ TrIdle /\ SrIdle /\ PgIdle /\ HiIdle /\ UpIdle /\ VpIdle /\ ExIdle
  /\ GbIdle

\* http-server.ts 295-372: POST /mcp with or without a session header and
\* with or without an initialize body.  A known session has its timer reset;
\* an initialize request without a header creates a transport whose
\* onsessioninitialized callback stores it and starts the timer; anything
\* else is answered 400.
PostMcp ==
  /\ task = "http-server"
  /\ \E header \in {<<>>} \cup {<<id>> : id \in SessionIds}, isInitializeRequest \in BOOLEAN :
       IF header # <<>> /\ header[1] \in transports
         THEN /\ timerCount < MaxTimers
              /\ SetRegistry(resetSessionTimer(Registry, header[1]))
              /\ httpStatus' = 200
              /\ UNCHANGED <<openTransports, sessionCount>>
       ELSE IF header = <<>> /\ isInitializeRequest
         THEN /\ timerCount < MaxTimers
              /\ sessionCount < MaxSessions
              /\ LET sessionId == sessionCount + 1
                     stored == [Registry EXCEPT !.transports = @ \cup {sessionId}]
                 IN /\ SetRegistry(resetSessionTimer(stored, sessionId))
                    /\ openTransports' = openTransports \cup {sessionId}
                    /\ sessionCount' = sessionId
              /\ httpStatus' = 200
       ELSE /\ httpStatus' = 400
            /\ UNCHANGED <<transports, sessionTimers, pendingTimers, timerCount,
                           openTransports, sessionCount>>
  /\ UNCHANGED <<task, sweepLog, opVars, sqlVars, trVars, srVars, pgVars, hiVars, upVars,
                 vpVars, exVars, gbVars>>

\* http-server.ts 104-106: a scheduled timeout fires and runs cleanupSession.
TimerExpiry ==
  /\ task = "http-server"
  /\ \E t \in pendingTimers :
       SetRegistry(cleanupSession([Registry EXCEPT !.pendingTimers = @ \ {t}], t.sessionId))
  /\ UNCHANGED <<task, openTransports, sessionCount, sweepLog, httpStatus, opVars, sqlVars,
                 trVars, srVars, pgVars, hiVars, upVars, vpVars, exVars, gbVars>>

\* http-server.ts 334-343: the transport of a session closes (a DELETE, or
\* the stream ending) and its onclose runs cleanupSession.
TransportClose ==
  /\ task = "http-server"
  /\ \E sessionId \in openTransports :
       /\ SetRegistry(cleanupSession(Registry, sessionId))
       /\ openTransports' = openTransports \ {sessionId}
  /\ UNCHANGED <<task, sessionCount, sweepLog, httpStatus, opVars, sqlVars,
                 trVars, srVars, pgVars, hiVars, upVars, vpVars, exVars, gbVars>>

\* http-server.ts 81-95: one tick of the five-minute interval.
PeriodicSweep ==
  /\ task = "http-server"
  /\ Len(sweepLog) < MaxSweeps
  /\ SetRegistry(sweep(Registry, transports))
  /\ sweepLog' = Append(sweepLog, {id \in transports : id \notin DOMAIN sessionTimers})
  /\ UNCHANGED <<task, openTransports, sessionCount, httpStatus, opVars, sqlVars,
                 trVars, srVars, pgVars, hiVars, upVars, vpVars, exVars, gbVars>>

(***************************************************************************)
(* Specifications: one per operation under study.                          *)
(***************************************************************************)
InitOperator == task = "getOperator" /\ OpInit /\ SqlIdle /\ TrIdle /\ SrIdle /\ PgIdle /\ HiIdle /\ UpIdle /\ VpIdle /\ ExIdle /\ GbIdle /\ HsIdle
NextOperator == GetOperatorCall
SpecOperator == InitOperator /\ [][NextOperator]_vars

InitSQL == task = "formatSQL" /\ SqlInit /\ OpIdle /\ TrIdle /\ SrIdle /\ PgIdle /\ HiIdle /\ UpIdle /\ VpIdle /\ ExIdle /\ GbIdle /\ HsIdle
NextSQL == FormatSQLCall
SpecSQL == InitSQL /\ [][NextSQL]_vars

InitTransform == TrInit /\ OpIdle /\ SqlIdle /\ SrIdle /\ PgIdle /\ HiIdle /\ UpIdle /\ VpIdle /\ ExIdle /\ GbIdle /\ HsIdle
NextTransform == TransformCall \/ TransformArrayCall
SpecTransform == InitTransform /\ [][NextTransform]_vars

InitSearch == task = "searchRestlet" /\ SrInit /\ OpIdle /\ SqlIdle /\ TrIdle /\ PgIdle /\ HiIdle /\ UpIdle /\ VpIdle /\ ExIdle /\ GbIdle /\ HsIdle
NextSearch == SearchRestletCall \/ SearchRestletResponse
SpecSearch == InitSearch /\ [][NextSearch]_vars

InitPaging ==
  /\ task = "get-accounts" /\ PgInit
  /\ OpIdle /\ SqlIdle /\ TrIdle /\ SrIdle /\ HiIdle /\ UpIdle /\ VpIdle /\ ExIdle /\ GbIdle /\ HsIdle
NextPaging == GetAccountsInvoke \/ GetAccountsExecutorReturns \/ GetAccountsDelayElapsed
SpecPaging == InitPaging /\ [][NextPaging]_vars

InitHier ==
  /\ task = "getChildrenByNumber" /\ HiInit
  /\ OpIdle /\ SqlIdle /\ TrIdle /\ SrIdle /\ PgIdle /\ UpIdle /\ VpIdle /\ ExIdle /\ GbIdle /\ HsIdle
NextHier == GetChildrenByNumberCall \/ FindRecursivelyDescend \/ FindRecursivelyReturn
SpecHier == InitHier /\ [][NextHier]_vars

InitParent ==
  /\ task = "updateParentNumberFromId" /\ UpInit
  /\ OpIdle /\ SqlIdle /\ TrIdle /\ SrIdle /\ PgIdle /\ HiIdle /\ VpIdle /\ ExIdle /\ GbIdle /\ HsIdle
NextParent == UpdateParentNumberFromIdCall
SpecParent == InitParent /\ [][NextParent]_vars

InitValidate ==
  /\ task = "validateParamFilters" /\ VpInit
  /\ OpIdle /\ SqlIdle /\ TrIdle /\ SrIdle /\ PgIdle /\ HiIdle /\ UpIdle /\ ExIdle /\ GbIdle /\ HsIdle
NextValidate == ValidateParamFiltersCall
SpecValidate == InitValidate /\ [][NextValidate]_vars

InitExecute ==
  /\ task = "executeSuiteQL" /\ ExInit
  /\ OpIdle /\ SqlIdle /\ TrIdle /\ SrIdle /\ PgIdle /\ HiIdle /\ UpIdle /\ VpIdle /\ GbIdle /\ HsIdle
NextExecute == ExecuteSuiteQLCall
SpecExecute == InitExecute /\ [][NextExecute]_vars

InitBills ==
  /\ task = "get-bills" /\ GbInit
  /\ OpIdle /\ SqlIdle /\ TrIdle /\ SrIdle /\ PgIdle /\ HiIdle /\ UpIdle /\ VpIdle /\ ExIdle
  /\ HsIdle
NextBills == GetBillsInvoke \/ GetBillsResponse
SpecBills == InitBills /\ [][NextBills]_vars

InitHttp == OthersIdleForHttp /\ HsInit
NextHttp == PostMcp \/ TimerExpiry \/ TransportClose \/ PeriodicSweep
SpecHttp == InitHttp /\ [][NextHttp]_vars

\* searchRestlet over column maps with filter-only columns.
InitAlign ==
  /\ task = "searchRestlet" /\ SrInitAlign
  /\ OpIdle /\ SqlIdle /\ TrIdle /\ PgIdle /\ HiIdle /\ UpIdle /\ VpIdle /\ ExIdle /\ GbIdle /\ HsIdle
NextAlign == SearchRestletCall \/ SearchRestletResponse
SpecAlign == InitAlign /\ [][NextAlign]_vars

\* The two compilers.
InitCompilers == InitSQL \/ InitSearch
NextCompilers == NextSQL \/ NextSearch
SpecCompilers == InitCompilers /\ [][NextCompilers]_vars

\* The two executors.
InitExecutors == InitSearch \/ InitExecute
NextExecutors == NextSearch \/ NextExecute
SpecExecutors == InitExecutors /\ [][NextExecutors]_vars

\* The places where errors are raised: getOperator, searchRestlet and
\* validateParamFilters.
InitErrors == InitOperator \/ InitSearch \/ InitValidate
NextErrors == NextOperator \/ NextSearch \/ NextValidate
SpecErrors == InitErrors /\ [][NextErrors]_vars

\* The tool handlers: get-vendors and get-accounts.
InitTools == InitSearch \/ InitPaging
NextTools == NextSearch \/ NextPaging
SpecTools == InitTools /\ [][NextTools]_vars

(***************************************************************************)
(* Properties of the textual compiler.                                     *)
(***************************************************************************)
SqlDone == task = "formatSQL" /\ sqlRes # <<>>

\* The part of a statement from the first occurrence of kw on (empty when kw
\* does not occur).
ClauseFrom(stmt, kw) ==
  IF Includes(stmt, kw) THEN SubSeq(stmt, IndexOf(stmt, kw), Len(stmt)) ELSE ""

\* C4: in count mode, whatever OrderBy, Filters, Limit and default sort are,
\* the {Columns} placeholder is replaced by exactly COUNT(*) AS Count with no
\* TOP directive, and the statement holds no ORDER BY clause.
C4_CountOnlySelectsCountWithoutOrder ==
  (SqlDone /\ sqlReq.params.CountOnly) =>
    LET stmt == sqlRes[1]
        i == IndexOf(sqlReq.sql, "{Columns}")
        head == SubSeq(sqlReq.sql, 1, i - 1) \o "COUNT(*) AS Count" \o " FROM"
    IN /\ SubSeq(stmt, 1, Len(head)) = head
       /\ ~Includes(stmt, "TOP")
       /\ ~Includes(stmt, "ORDER BY")
       /\ ~Includes(stmt, "{Columns}")
       /\ ~Includes(stmt, "{OrderBy}")

C4_Witness ==
  /\ SqlDone
  /\ sqlReq.params.CountOnly
  /\ sqlReq.params.OrderBy # <<>>
  /\ HasCol(sqlReq.Columns, sqlReq.params.OrderBy[1].Column)
  /\ sqlReq.params.Limit = <<5>>
  /\ sqlReq.params.Filters # <<>>
  /\ HasCol(sqlReq.Columns, sqlReq.defaultSort.Column)
  /\ Includes(sqlReq.sql, "{OrderBy}")

OpDone == task = "getOperator" /\ opRes # <<>>

\* The documented structured-backend table: <<data type, operator, token>>.
DocumentedScript ==
  {<<"boolean", o, "is">> : o \in Operators}
  \cup { <<"number", "=", "EQUALTO">>, <<"number", "!=", "NOTEQUALTO">>,
         <<"number", "<", "LESSTHAN">>, <<"number", "<=", "LESSTHANOREQUALTO">>,
         <<"number", ">", "GREATERTHAN">>, <<"number", ">=", "GREATERTHANOREQUALTO">>,
         <<"date", "=", "ON">>, <<"date", "!=", "NOTON">>,
         <<"date", "<", "BEFORE">>, <<"date", "<=", "ONORBEFORE">>,
         <<"date", ">", "AFTER">>, <<"date", ">=", "ONORAFTER">>,
         <<"string", "=", "CONTAINS">>, <<"string", "Like", "CONTAINS">>,
         <<"string", "!=", "DOESNOTCONTAIN">>, <<"string", "Not_Like", "DOESNOTCONTAIN">>,
         <<"id", "=", "ANYOF">>, <<"id", "Like", "ANYOF">>,
         <<"id", "!=", "NONEOF">>, <<"id", "Not_Like", "NONEOF">> }

\* C8: on the structured backend every documented (data type, operator) pair
\* returns exactly its documented token.
C8_StructuredDocumentedTokens ==
  (OpDone /\ opReq.reqtype = "script") =>
    \A d \in DocumentedScript :
      (opReq.datatype = d[1] /\ opReq.operator = d[2]) =>
        (opRes[1].ok /\ opRes[1].token = d[3])

C8_Witness ==
  /\ OpDone
  /\ opReq = [reqtype |-> "script", datatype |-> "date", operator |-> "<"]
  /\ opRes[1] = Token("BEFORE")

\* C9: on the structured backend every (data type, operator) pair without a
\* documented mapping raises an error and returns no token: Like and Not_Like
\* on number or date, the four relational operators on string or id, and
\* every operator on a data type outside boolean, number, date, string, id.
C9_UndocumentedPairsRaise ==
  (/\ OpDone
   /\ opReq.reqtype = "script"
   /\ ~\E d \in DocumentedScript : opReq.datatype = d[1] /\ opReq.operator = d[2]) =>
    (~opRes[1].ok /\ opRes[1].name = "AIErr")

C9_Witness ==
  /\ OpDone
  /\ opReq = [reqtype |-> "script", datatype |-> "enum", operator |-> "="]
  /\ ~opRes[1].ok

\* C10: on the textual backend no triple raises; on a string column = and Like
\* give LIKE and != and Not_Like give NOT LIKE; <, <=, >, >= on every data type
\* and = and != on every data type but string are returned unchanged.
C10_TextualOperators ==
  (OpDone /\ opReq.reqtype = "sql") =>
    /\ opRes[1].ok
    /\ (opReq.datatype = "string" /\ opReq.operator \in {"=", "Like"}) =>
         opRes[1].token = "LIKE"
    /\ (opReq.datatype = "string" /\ opReq.operator \in {"!=", "Not_Like"}) =>
         opRes[1].token = "NOT LIKE"
    /\ opReq.operator \in {"<", "<=", ">", ">="} => opRes[1].token = opReq.operator
    /\ (opReq.datatype # "string" /\ opReq.operator \in {"=", "!="}) =>
         opRes[1].token = opReq.operator

C10_Witness ==
  /\ OpDone
  /\ opReq = [reqtype |-> "sql", datatype |-> "number", operator |-> "!="]
  /\ opRes[1] = Token("!=")

(***************************************************************************)
(* Properties of the result normalizers.                                   *)
(***************************************************************************)
TransformDone == task = "transform" /\ trRes # <<>>

SpecExampleRow ==
  << [k |-> "ACCTNUMBER", v |-> Str("4010")], [k |-> "AMOUNT", v |-> Str("123.45")] >>

\* C2: every record transform returns is keyed by logical column names of the
\* column map, also for a column that declares a backend field name; the raw
\* row {ACCTNUMBER:"4010", AMOUNT:"123.45"} under the map AccountNumber
\* {name:"acctnumber", string}, Amount {number} gives
\* {AccountNumber:"4010", Amount:123.45}.
C2_TransformKeyedByLogicalName ==
  TransformDone =>
    /\ \A r \in 1..Len(trRes[1]) :
         Range(ObjKeys(trRes[1][r])) \subseteq Range(Keys(trReq.propertyNames))
    /\ (trReq.rows = <<SpecExampleRow>> /\ trReq.propertyNames[1].key = "AccountNumber") =>
         trRes[1] = << << [k |-> "AccountNumber", v |-> Str("4010")],
                          [k |-> "Amount", v |-> Num("123.45")] >> >>

(***************************************************************************)
(* Properties of the structured compiler and of the search helper.         *)
(***************************************************************************)
\* The result cap a request resolves to: 1 in count mode, else the requested
\* limit, else the ceiling.
ResolvedCap(req) ==
  IF req.params.CountOnly THEN 1
  ELSE IF req.params.Limit # <<>> /\ req.params.Limit[1] # 0 THEN req.params.Limit[1]
  ELSE MAX_ARRAY_ITEMS

\* C5: a request whose resolved result cap exceeds 10,000 is rejected with an
\* error, and no HTTP request is issued for that invocation, before or after.
C5_LimitAboveCeilingRejectedBeforeHttp ==
  (task = "searchRestlet" /\ ResolvedCap(srReq) > 10000) =>
    /\ srSent = <<>>
    /\ srPc \in {"start", "error"}
    /\ srPc = "error" => ~srRes[1].ok

C5_Witness ==
  /\ task = "searchRestlet"
  /\ srPc = "error"
  /\ srReq.params.Limit = <<20000>>
  /\ ~srReq.params.CountOnly
  /\ srReq.env = [url |-> TRUE, token |-> TRUE]
  /\ srRes = <<Throw("UserErr")>>
  /\ srSent = <<>>

\* Position of a logical column among the projected (not filter-only) columns.
ProjectedIndex(Columns, key) ==
  LET Projected(c) == c.filterOnly # TRUE
      kept == SelectSeq(Columns, Projected)
  IN CHOOSE i \in 1..Len(kept) : kept[i].key = key

\* C7: outside count mode, when OrderBy names a column missing from the column
\* map, the descriptor's projected column of the default sort column carries
\* the sort marker with the default direction.
C7_StructuredOrderFallsBackToDefault ==
  (/\ task = "searchRestlet"
   /\ srObj # <<>>
   /\ ~srReq.params.CountOnly
   /\ srReq.params.OrderBy # <<>>
   /\ ~HasCol(srReq.columns, srReq.params.OrderBy[1].Column)) =>
    srObj[1].columns[ProjectedIndex(srReq.columns, srReq.defaultSort.Column)].sort
      = <<srReq.defaultSort.SortOrder>>


(***************************************************************************)
(* The paged fetch loop of get-accounts.                                   *)
(***************************************************************************)
\* The loop has returned the accumulated rows (no failure, not count-only).
PgDone ==
  /\ task = "get-accounts" /\ pgPc = "done" /\ pgRes # <<>>
  /\ ~pgRes[1].isError /\ input.CountOnly = FALSE

\* The number of responses that reported more pages.
PgHasMoreCount == Cardinality({i \in 1..Len(pgData) : pgData[i].hasMore})

\* The raw rows of the pages, in call order.
RECURSIVE PgRawRowsFrom(_)
PgRawRowsFrom(i) ==
  IF i > Len(pgData) THEN <<>> ELSE pgData[i].items \o PgRawRowsFrom(i + 1)

\* The normalized rows of the pages, in call order.
RECURSIVE PgNormalizedRowsFrom(_)
PgNormalizedRowsFrom(i) ==
  IF i > Len(pgData) THEN <<>>
  ELSE transform(pgData[i].items, AccountsColumns) \o PgNormalizedRowsFrom(i + 1)

\* n reports of more pages give n+1 calls, the first at offset 0, and the
\* accumulated rows are the pages' normalized rows in call order; the returned
\* accounts are those rows, one account per raw row, in the same order.
PgCallsAndConcatenation ==
  /\ Len(pgCalls) = PgHasMoreCount + 1
  /\ \A i \in 1..Len(pgData) : pgData[i].hasMore <=> i < Len(pgData)
  /\ pgCalls[1].offset = 0
  /\ totalData = PgNormalizedRowsFrom(1)
  /\ Len(pgRes[1].accounts) = Len(PgRawRowsFrom(1))
  /\ \A k \in 1..Len(pgRes[1].accounts) :
       ObjGet(pgRes[1].accounts[k], "AccountNumber") = ObjGet(PgRawRowsFrom(1)[k], "accountnumber")

\* C3 as stated: when the executor reports hasMore exactly n times and then
\* false, the loop issues exactly n+1 calls at offsets that start at 0 and
\* strictly increase, and the result is the concatenation of all pages'
\* normalized rows in call order.
C3_OffsetsStrictlyIncrease ==
  PgDone =>
    /\ PgCallsAndConcatenation
    /\ \A i \in 2..Len(pgCalls) : pgCalls[i].offset > pgCalls[i - 1].offset

\* C3, as the loop behaves: when the executor reports hasMore exactly n times
\* and then false, the loop issues exactly n+1 calls, the first at offset 0 and
\* each later one at the offset plus the count reported by the response before
\* it (strictly greater than the offset of the call before whenever that
\* response echoes its call's offset and reports at least one row), and the
\* result is the concatenation of all pages' normalized rows in call order.
C3_OffsetsFollowReportedOffsetPlusCount ==
  PgDone =>
    /\ PgCallsAndConcatenation
    /\ \A i \in 2..Len(pgCalls) :
         /\ pgCalls[i].offset = pgData[i - 1].offset + pgData[i - 1].count
         /\ (pgData[i - 1].offset = pgCalls[i - 1].offset /\ pgData[i - 1].count >= 1)
              => pgCalls[i].offset > pgCalls[i - 1].offset

\* Three calls at offsets 0, 1, 3 whose pages, one, two and one row long, come
\* back in call order.
C3_Witness ==
  /\ PgDone
  /\ Len(pgCalls) = 3
  /\ pgCalls[2].offset = 1 /\ pgCalls[3].offset = 3
  /\ pgData[1].items = <<AccountRowA>>
  /\ pgData[2].items = <<AccountRowB, AccountRowA>>
  /\ pgData[3].items = <<AccountRowB>>
  /\ Len(pgRes[1].accounts) = 4


(***************************************************************************)
(* The descendant expansion.                                               *)
(***************************************************************************)
\* The account numbers reachable from N along child.ParentNumber =
\* parent.AccountNumber, N included.
RECURSIVE NumbersBelow(_, _)
NumbersBelow(accountData, S) ==
  LET more == {accountData[i].AccountNumber :
                 i \in {j \in 1..Len(accountData) :
                          /\ accountData[j].ParentNumber # <<>>
                          /\ accountData[j].ParentNumber[1] \in S}}
  IN IF more \subseteq S THEN S ELSE NumbersBelow(accountData, S \cup more)

\* The id of the account numbered N and the ids of its transitive descendants.
Descendants(accountData, N) ==
  Range(selfAcc(accountData, N))
    \cup {IdOf(accountData, i) :
            i \in {j \in 1..Len(accountData) :
                     /\ accountData[j].ParentNumber # <<>>
                     /\ accountData[j].ParentNumber[1] \in NumbersBelow(accountData, {N})}}

\* C1: for every flat account list and every start number N, the returned id
\* set is the id of the account numbered N together with the ids of all its
\* transitive descendants under child.ParentNumber = parent.AccountNumber.
C1_ReturnsAllTransitiveDescendants ==
  (task = "getChildrenByNumber" /\ hiPc = "done")
    => Range(result) = Descendants(hiReq.accountData, hiReq.Numb)


(***************************************************************************)
(* Like on a numeric column, for both backends.                            *)
(***************************************************************************)
\* C11: a Like filter on a numeric column resolves to a backend operator
\* token through the operator translator, for the textual and for the
\* structured backend alike.
C11_LikeOnNumberResolves ==
  (OpDone /\ opReq.datatype = "number" /\ opReq.operator = "Like") => opRes[1].ok


(***************************************************************************)
(* The WHERE clause of the textual compiler.                               *)
(***************************************************************************)
\* C12: a filter Name = Acme on the string column Name (backend reference
\* a.Name) is rendered in the WHERE clause as the reference, the operator LIKE
\* and the value wrapped in % inside single quotes: the clause contains the
\* exact text a.Name LIKE '%Acme%'.
C12_StringEqualsRendersAsLikeWildcard ==
  (/\ SqlDone
   /\ Includes(sqlReq.sql, "{Filters}")
   /\ [Column |-> "Name", Operator |-> "=", Value |-> "Acme"]
        \in Range(sqlReq.params.Filters)) =>
    Includes(ClauseFrom(sqlRes[1], "WHERE"), "a.Name LIKE '%Acme%'")


\* The filters of the request whose column is in the column map, in order.
ResolvableFilters ==
  LET Known(f) == HasCol(sqlReq.Columns, f.Column) IN SelectSeq(sqlReq.params.Filters, Known)

\* The WHERE clause made of the inbuilt fragment and of the given filters, each
\* rendered on its own, joined by AND.
WhereOf(inbuiltFilter, filtersParams) ==
  LET each == [i \in 1..Len(filtersParams) |->
                 getFiltersSQL(sqlReq.Columns, <<filtersParams[i]>>)]
      custom == JoinWith(each, " AND ")
      inbuilt == IF inbuiltFilter # "" THEN " " \o inbuiltFilter ELSE ""
  IN IF inbuilt = "" /\ custom = "" THEN ""
     ELSE "WHERE " \o inbuilt \o (IF inbuilt # "" /\ custom # "" THEN " AND " ELSE "")
            \o custom

SrCompiled == task = "searchRestlet" /\ srPc # "start"

\* The filters of the request whose column is in the column map, in order.
ResolvableSearchFilters ==
  LET Known(f) == HasCol(srReq.columns, f.Column) IN SelectSeq(srReq.params.Filters, Known)

\* C14: a filter whose Column is missing from the column map is skipped and
\* is not fatal: when the other filters compile, the compilation does not
\* raise and the descriptor's filter list holds only the inbuilt expression
\* and the resolvable filters.
C14_UnknownSearchFilterColumnSkipped ==
  (/\ SrCompiled
   /\ Len(ResolvableSearchFilters) < Len(srReq.params.Filters)
   /\ getFiltersSearch(srReq.columns, ResolvableSearchFilters).ok) =>
    LET rest == getFiltersSearch(srReq.columns, ResolvableSearchFilters).filters IN
    /\ srObj # <<>>
    /\ srObj[1].filters =
         srReq.inbuiltFilter
           \o (IF srReq.inbuiltFilter # <<>> /\ rest # <<>> THEN << <<"AND">> >> ELSE <<>>)
           \o rest


(***************************************************************************)
(* Falsy raw values in the normalizers.                                    *)
(***************************************************************************)
NormalizerDone == task \in {"transform", "transformArray"} /\ trRes # <<>>

\* The raw value of the i-th column of the map in the raw row: by matching key
\* for the object-keyed normalizer, by position for the positional one.
RawValueOf(row, i) ==
  IF task = "transform" THEN
    LET m == FindMatchingKey(row, sourceKeyOf(trReq.propertyNames[i])) IN
    IF m = <<>> THEN Undefined ELSE ObjGet(row, m[1])
  ELSE IF i <= Len(row) THEN row[i] ELSE Undefined

\* C15: both normalizers treat a falsy raw value, an explicit 0 included, as
\* absent: the output record has no entry for that column.
C15_FalsyRawValueIsAbsent ==
  NormalizerDone =>
    \A r \in 1..Len(trReq.rows) : \A i \in 1..Len(trReq.propertyNames) :
      ~Truthy(RawValueOf(trReq.rows[r], i)) =>
        /\ ~ObjHas(trRes[1][r], trReq.propertyNames[i].key)
        /\ ~ObjHas(trRes[1][r], sourceKeyOf(trReq.propertyNames[i]))


(***************************************************************************)
(* The flat parent-number rewrite.                                         *)
(***************************************************************************)
UpDone == task = "updateParentNumberFromId" /\ upRes # <<>>

\* The positions of the records a ParentId refers to.
ParentsOf(data, i) ==
  {j \in 1..Len(data) : ObjHas(data[i], "ParentId")
                          /\ ObjGet(data[j], "Id") = ObjGet(data[i], "ParentId")}

\* C16: after the pass, every record whose ParentId referenced a record of the
\* list has the ParentNumber of that parent's account number, a record without
\* a parent is unchanged, and no record of the output retains a ParentId field,
\* whether or not its parent was resolved.
C16_ParentIdRewritten ==
  UpDone =>
    \A i \in 1..Len(upReq) :
      /\ ParentsOf(upReq, i) # {} =>
           \E j \in ParentsOf(upReq, i) :
             ObjGet(upRes[1][i], "ParentNumber") = ObjGet(upReq[j], "AccountNumber")
      /\ ~ObjHas(upReq[i], "ParentId") => upRes[1][i] = upReq[i]
      /\ ~ObjHas(upRes[1][i], "ParentId")


(***************************************************************************)
(* The count fields of the descriptor.                                     *)
(***************************************************************************)
\* C17: every descriptor sent to the backend has countOnly true exactly when
\* the request's CountOnly is true, and in count mode its maxResults is 1.
C17_CountOnlyFieldFromRequest ==
  task = "searchRestlet" =>
    \A i \in 1..Len(srSent) :
      /\ srSent[i].countOnly = (srReq.params.CountOnly = TRUE)
      /\ srReq.params.CountOnly = TRUE => srSent[i].maxResults = 1


(***************************************************************************)
(* Filters and order of the tool input in the statement of get-accounts.   *)
(***************************************************************************)
\* C18: the caller's resolvable Filters and OrderBy reach the backend: in every
\* statement get-accounts passes to the executor, a resolvable filter appears
\* in the WHERE clause and, outside count mode, the resolved order in the
\* ORDER BY clause.
C18_FiltersAndOrderReachExecutor ==
  task = "get-accounts" =>
    \A i \in 1..Len(pgCalls) :
      /\ [Column |-> "Name", Operator |-> "=", Value |-> "Acme"] \in Range(input.Filters) =>
           Includes(ClauseFrom(pgCalls[i].query, "WHERE"), "a.accountSearchDisplayNameCopy LIKE")
      /\ (input.CountOnly = FALSE /\ input.OrderBy # <<>>
            /\ HasCol(AccountsColumns, input.OrderBy[1].Column)) =>
           Includes(pgCalls[i].query,
                    "ORDER BY " \o Col(AccountsColumns, input.OrderBy[1].Column).sql)


(***************************************************************************)
(* The payloads of get-vendors and get-accounts.                           *)
(***************************************************************************)
ToolEnded ==
  \/ task = "searchRestlet" /\ srPc \in {"done", "error"}
  \/ task = "get-accounts" /\ pgPc = "done"

ToolPayload == IF task = "get-accounts" THEN pgRes ELSE gvRes

ToolThrew ==
  \/ task = "searchRestlet" /\ srRes # <<>> /\ ~srRes[1].ok
  \/ task = "get-accounts" /\ \E i \in 1..Len(pgData) : pgData[i].threw

C20_RaisedErrorsCarryDocumentedKind ==
  /\ (task = "searchRestlet" /\ srPc = "error" /\ srObj # <<>>
        /\ ResolvedCap(srReq) > MAX_ARRAY_ITEMS) => srRes = <<Throw("AIErr")>>
  /\ (OpDone /\ ~opRes[1].ok) => opRes = <<Throw("AIErr")>>
  /\ (task = "validateParamFilters" /\ vpRes # <<>> /\ vpReq.params.Filters = <<>>) =>
       vpRes = <<Throw("UserErr")>>
  /\ (task = "searchRestlet" /\ srResp # <<>> /\ srResp[1].kind = "body"
        /\ srResp[1].success = FALSE) => srRes = <<Throw("APIErr")>>


(***************************************************************************)
(* Missing configuration of the executors.                                 *)
(***************************************************************************)
EnvMissing(env) == ~env.url \/ ~env.token

\* searchRestlet stopped at the test of the environment variables.
SrStoppedAtEnv ==
  /\ task = "searchRestlet" /\ srPc = "error" /\ srObj # <<>>
  /\ ~exceedsCeiling(withDefaults(srObj[1]).maxResults)
  /\ EnvMissing(srReq.env)

ExDone == task = "executeSuiteQL" /\ exRes # <<>>

\* C21: with the endpoint URL or the token missing, executeSuiteQL and
\* searchRestlet throw, and the kind of the error thrown is not the kind of
\* any error they throw when the configuration is complete and the request
\* fails or the backend reports a failure.
C21_ConfigurationErrorDistinctFromBackendErrors ==
  /\ (ExDone /\ EnvMissing(exReq.env)) =>
       /\ ~exRes[1].ok
       /\ \A met \in SuiteQLMet :
            LET o == executeSuiteQL([url |-> TRUE, token |-> TRUE], met) IN
            ~o.ok => o.name # exRes[1].name
  /\ SrStoppedAtEnv =>
       /\ ~srRes[1].ok
       /\ \A resp \in Responses :
            LET o == searchRestletOutcome(srReq, resp) IN
            ~o.ok => o.name # srRes[1].name


(***************************************************************************)
(* The coercions of the two normalizers.                                   *)
(***************************************************************************)
\* What transform stores for the raw value under a column of the given
\* declaration that has no backend field name of its own.
ViaTransform(field, value) ==
  LET plain == [field EXCEPT !.name = <<>>]
  IN ObjGet(transform(<< <<[k |-> plain.key, v |-> value]>> >>, <<plain>>)[1], plain.key)

\* C22: for every column and every raw value that is neither null nor
\* undefined, the record transformArray returns holds, under that column, the
\* value transform stores for the same declared type and the same raw value;
\* on a boolean column "1" becomes true and "0" becomes false.
C22_TransformArraySameCoercions ==
  (task = "transformArray" /\ trRes # <<>>) =>
    \A r \in 1..Len(trReq.rows) : \A i \in 1..Len(trReq.propertyNames) :
      LET field == trReq.propertyNames[i]
          value == RawValueOf(trReq.rows[r], i)
      IN value.t \notin {"null", "undefined"} =>
           /\ ObjGet(trRes[1][r], field.key) = ViaTransform(field, value)
           /\ (field.type = "boolean" /\ value = Str("1")) =>
                ObjGet(trRes[1][r], field.key) = Bool(TRUE)


(***************************************************************************)
(* The paged fetch loop in count mode.                                     *)
(***************************************************************************)
\* C23: in count mode get-accounts issues one executor call, at offset 0, and
\* returns {Count} as soon as the executor returns: it accumulates no rows,
\* takes no delay and issues no further call, whatever hasMore reports.
C23_CountModeOneCallThenCount ==
  (task = "get-accounts" /\ input.CountOnly = TRUE) =>
    /\ Len(pgCalls) <= 1
    /\ \A i \in 1..Len(pgCalls) : pgCalls[i].offset = 0
    /\ pgDelays = <<>> /\ pgPc # "delay"
    /\ totalData = <<>>
    /\ pgData # <<>> => pgPc = "done"
    /\ (pgData # <<>> /\ ~pgData[1].threw) =>
         pgRes = <<[isError |-> FALSE, Count |-> pgData[1].count]>>

\* A count of 2 returned from a response that reports more pages.
C23_Witness ==
  /\ task = "get-accounts" /\ input.CountOnly = TRUE
  /\ pgPc = "done"
  /\ Len(pgData) = 1 /\ pgData[1].hasMore /\ pgData[1].count = 2
  /\ pgData[1].items # <<>>
  /\ pgRes = <<[isError |-> FALSE, Count |-> 2]>>


(***************************************************************************)
(* The delay of the paged fetch loop.                                      *)
(***************************************************************************)
\* C24: every executor call after the first is issued after the response to
\* the call before it and after a delay taken between the two; no delay is
\* taken before the first call.  pgDelays holds, for each delay taken, the
\* number of calls issued before it.
C24_DelayBetweenConsecutiveCalls ==
  task = "get-accounts" =>
    /\ Len(pgData) >= Len(pgCalls) - 1
    /\ \A i \in 2..Len(pgCalls) : (i - 1) \in Range(pgDelays)
    /\ 0 \notin Range(pgDelays)


(***************************************************************************)
(* Termination of the paged fetch loop.                                    *)
(***************************************************************************)
\* C25: outside count mode the loop ends only on a response that reports no
\* more pages or on an error of the executor: after a response with hasMore
\* false the invocation has returned the accumulated rows, and after a
\* response with hasMore true it has not returned and goes on to the next
\* call, however many calls were made before.
C25_LoopEndsOnlyOnNoMorePages ==
  (task = "get-accounts" /\ input.CountOnly = FALSE /\ pgData # <<>>) =>
    LET last == pgData[Len(pgData)] IN
    /\ \A i \in 1..(Len(pgData) - 1) : pgData[i].hasMore /\ ~pgData[i].threw
    /\ pgPc = "done" <=> (last.threw \/ ~last.hasMore)
    /\ (~last.threw /\ ~last.hasMore) =>
         /\ pgRes # <<>> /\ ~pgRes[1].isError
         /\ Len(pgRes[1].accounts) = Len(PgRawRowsFrom(1))
         /\ totalData = PgNormalizedRowsFrom(1)
    /\ (~last.threw /\ last.hasMore) =>
         /\ pgRes = <<>>
         /\ \/ pgPc = "delay" /\ Len(pgCalls) = Len(pgData)
            \/ pgPc = "awaiting" /\ Len(pgCalls) = Len(pgData) + 1

\* The loop has issued as many calls as the executor reported more pages for,
\* up to the largest number of the model, and then returned the rows.
C25_Witness ==
  /\ task = "get-accounts" /\ input.CountOnly = FALSE
  /\ pgPc = "done"
  /\ Len(pgCalls) = MaxCalls
  /\ \A i \in 1..(MaxCalls - 1) : pgData[i].hasMore
  /\ ~pgData[MaxCalls].hasMore /\ ~pgData[MaxCalls].threw
  /\ pgRes # <<>> /\ Len(pgRes[1].accounts) = MaxCalls


(***************************************************************************)
(* Cycles in the parent links of the descendant expansion.                 *)
(***************************************************************************)
\* Some account number below N (N included) lies below one of its own
\* children, along child.ParentNumber = parent.AccountNumber.
HasParentCycle(accountData, N) ==
  \E n \in NumbersBelow(accountData, {N}) :
    \E j \in 1..Len(accountData) :
      /\ accountData[j].ParentNumber = <<n>>
      /\ n \in NumbersBelow(accountData, {accountData[j].AccountNumber})

\* C26: when the parent links reachable from the start account form a cycle,
\* getChildrenByNumber never returns.
C26_CycleNeverTerminates ==
  (task = "getChildrenByNumber" /\ HasParentCycle(hiReq.accountData, hiReq.Numb)) =>
    hiPc # "done"


(***************************************************************************)
(* The connectives of the compiled filters.                                *)
(***************************************************************************)
\* The pieces of s between the occurrences of sep.
RECURSIVE SplitBy(_, _)
SplitBy(s, sep) ==
  LET i == IndexOf(s, sep) IN
  IF i = 0 THEN <<s>>
  ELSE <<SubSeq(s, 1, i - 1)>> \o SplitBy(SubSeq(s, i + Len(sep), Len(s)), sep)

\* The text of the statement after its WHERE keyword, up to ORDER BY.
WhereBody(stmt) ==
  LET clause == ClauseFrom(stmt, "WHERE")
      body == SubSeq(clause, Len("WHERE") + 1, Len(clause))
      j == IndexOf(body, "ORDER BY")
  IN IF j = 0 THEN body ELSE SubSeq(body, 1, j - 1)

\* The conditions the textual request leaves: the inbuilt fragment and the
\* backend reference of every resolvable filter.
SqlConditions ==
  (IF sqlReq.inbuiltFilter # "" THEN <<sqlReq.inbuiltFilter>> ELSE <<>>)
    \o [i \in 1..Len(ResolvableFilters) |->
          Col(sqlReq.Columns, ResolvableFilters[i].Column).sql \o " "]

\* The textual half: WHERE is there exactly when a condition remains, and the
\* text after it is the conditions in order with one AND between neighbours.
TextConnectives ==
  (SqlDone /\ Includes(sqlReq.sql, "{Filters}")) =>
    LET stmt == sqlRes[1]
        pieces == SplitBy(WhereBody(stmt), " AND ")
    IN /\ Includes(stmt, "WHERE") <=> SqlConditions # <<>>
       /\ SqlConditions # <<>> =>
            /\ Len(pieces) = Len(SqlConditions)
            /\ \A i \in 1..Len(pieces) :
                 /\ Includes(pieces[i], SqlConditions[i])
                 /\ ~Includes(pieces[i], "AND")

\* The structured half: the descriptor's filter list is the inbuilt
\* expressions, one AND when both parts are non-empty, and the conditions of
\* the request's filters in order with one AND between neighbours.
SearchConnectives ==
  (task = "searchRestlet" /\ srObj # <<>>) =>
    LET f == srObj[1].filters
        inbuilt == srReq.inbuiltFilter
        m == Len(srReq.params.Filters)
        joint == IF Len(inbuilt) > 0 /\ m > 0 THEN 1 ELSE 0
        base == Len(inbuilt) + joint
    IN /\ Len(f) = base + (IF m > 0 THEN 2 * m - 1 ELSE 0)
       /\ SubSeq(f, 1, Len(inbuilt)) = inbuilt
       /\ joint = 1 => f[Len(inbuilt) + 1] = <<"AND">>
       /\ \A k \in 1..(Len(f) - base) :
            IF k % 2 = 1
              THEN /\ Len(f[base + k]) = 3
                   /\ f[base + k][3] = valueSearch(Col(srReq.columns,
                                                       srReq.params.Filters[(k + 1) \div 2].Column),
                                                   srReq.params.Filters[(k + 1) \div 2])
              ELSE f[base + k] = <<"AND">>
       /\ Len(f) > 0 => (f[1] # <<"AND">> /\ f[Len(f)] # <<"AND">>)

\* C27: in the compiled filters of both compilers, also when the textual
\* compiler skips filters on unknown columns, neighbouring conditions are
\* separated by exactly one AND, no AND leads or trails, the inbuilt filter is
\* joined by AND only when both parts are non-empty, and the textual WHERE is
\* emitted exactly when a condition remains.
C27_ConnectivePlacement == TextConnectives /\ SearchConnectives


\* A textual statement compiled from a skipped filter followed by two
\* resolvable ones, with no inbuilt fragment.
C27_Witness ==
  /\ SqlDone
  /\ Includes(sqlReq.sql, "{Filters}")
  /\ sqlReq.inbuiltFilter = ""
  /\ sqlReq.params.Filters =
       << [Column |-> "Nonexistent", Operator |-> "Like", Value |-> "x"],
          [Column |-> "Name", Operator |-> "=", Value |-> "Acme"],
          [Column |-> "Id", Operator |-> ">", Value |-> "5"] >>
  /\ Includes(sqlRes[1], "WHERE a.Name LIKE  '%Acme%'  AND a.Id >  '5' ")


(***************************************************************************)
(* The required filters of get-bills.                                      *)
(***************************************************************************)
\* The Filters list is non-empty, has no filter on Period and has a filter on
\* Date or DueDate.
HasRequiredFilters(Filters) ==
  /\ Filters # <<>>
  /\ \A i \in 1..Len(Filters) : Filters[i].Column # "Period"
  /\ \E i \in 1..Len(Filters) : Filters[i].Column \in {"Date", "DueDate"}

\* C28: a request to get-bills whose Filters list is empty, holds a filter on
\* Period or holds no filter on Date or DueDate is rejected with an error
\* payload and no body is ever posted to the backend for it.
C28_RequiredFiltersOrRejected ==
  (task = "get-bills" /\ ~HasRequiredFilters(gbReq.params.Filters)) =>
    /\ gbSent = <<>>
    /\ gbPc \in {"start", "done"}
    /\ gbPc = "done" => (gbRes # <<>> /\ gbRes[1].isError
                          /\ gbRes[1].error = errorMessage(Throw("AIErr")))

\* A request with a Date filter and a Period filter was rejected.
C28_Witness ==
  /\ task = "get-bills"
  /\ gbPc = "done"
  /\ Len(gbReq.params.Filters) = 2
  /\ gbReq.params.Filters[1].Column = "Date"
  /\ gbReq.params.Filters[2].Column = "Period"
  /\ gbSent = <<>>
  /\ gbRes # <<>> /\ gbRes[1].isError


(***************************************************************************)
(* Column alignment of the structured path.                                *)
(***************************************************************************)
\* C29: the columns of the body sent to the backend and the column map given
\* to transformArray have the same length and, position by position, denote
\* the same column of the request's column map, wherever its filter-only
\* columns are; every truthy positional value of a result row is stored, with
\* the column's coercion, under the logical name of the column requested at
\* that position, and no other names are stored.
C29_ProjectedColumnsAligned ==
  (task = "searchRestlet" /\ srSent # <<>>) =>
    LET sent == srSent[1].columns
        given == transformColumns(srReq.columns)
    IN /\ Len(sent) = Len(given)
       /\ \A i \in 1..Len(given) :
            /\ HasCol(srReq.columns, given[i].key)
            /\ Col(srReq.columns, given[i].key).filterOnly # TRUE
            /\ sent[i].name = Col(srReq.columns, given[i].key).name
       /\ (srPc = "done" /\ ~srReq.params.CountOnly) =>
            \A r \in 1..Len(srResp[1].items) :
              LET row == srResp[1].items[r]
                  out == srRes[1].items[r]
              IN /\ Range(ObjKeys(out)) \subseteq {given[i].key : i \in 1..Len(given)}
                 /\ \A i \in 1..Len(given) :
                      (i <= Len(row) /\ Truthy(row[i])) =>
                        ObjGet(out, given[i].key) = coerceArray(given[i], row[i])

\* A map whose first and third columns are filter-only: the backend was asked
\* for Name and Amount, and the row's two leading values came back under them.
C29_Witness ==
  /\ task = "searchRestlet" /\ srPc = "done"
  /\ Keys(transformColumns(srReq.columns)) = <<"Name", "Amount">>
  /\ Len(srSent[1].columns) = 2
  /\ srSent[1].columns[1].name = "entityid" /\ srSent[1].columns[2].name = "amount"
  /\ srResp[1].items = << <<Str("42"), Str("Acme"), Str("1/31/2024"), Str("100.5")>> >>
  /\ srRes[1].items = << << [k |-> "Name", v |-> Str("42")],
                            [k |-> "Amount", v |-> parseFloat("Acme")] >> >>


(***************************************************************************)
(* The session registry of the HTTP server.                                *)
(***************************************************************************)
SessionsWithPendingTimer == {t.sessionId : t \in pendingTimers}

\* C30: between any two events of the HTTP server a session id is a key of
\* the transports map exactly when it is a key of the timers map and exactly
\* when a timeout for it is still scheduled, and the periodic sweep has never
\* found a session without a timer.
C30_TransportIffPendingTimer ==
  task = "http-server" =>
    /\ transports = DOMAIN sessionTimers
    /\ transports = SessionsWithPendingTimer
    /\ \A t \in pendingTimers : sessionTimers[t.sessionId] = t.handle
    /\ \A i \in 1..Len(sweepLog) : sweepLog[i] = {}

\* Two sessions were initialised, one has since been cleaned up (its timer
\* expired while its transport stayed open), the other was posted to again,
\* and the sweep has run over the remaining session.
C30_Witness ==
  /\ task = "http-server"
  /\ sessionCount = 2
  /\ Cardinality(transports) = 1
  /\ timerCount > 2
  /\ Len(sweepLog) > 0
  /\ Cardinality(openTransports) = 2

====
